---- MODULE Spec2Model ----
(***************************************************************************)
(* Authentication core of Hypertrader (backend/auth.py and the auth        *)
(* endpoints of backend/server_with_auth.py): account lockout, signed      *)
(* tokens, refresh, current-user resolution and the in-memory rate limiter.*)
(*                                                                         *)
(* Time is an integer number of ticks; TicksPerSecond ticks make a second, *)
(* so that the truncation of a token's exp claim to whole seconds is       *)
(* visible.  A motor call (find_one / update_one) is one atomic step at    *)
(* the store; the Python code between two awaits runs without interleaving *)
(* (one asyncio event loop) and is part of the step that precedes it.      *)
(***************************************************************************)
EXTENDS Integers, Sequences, FiniteSets, Bags, TLC

VARIABLES
    now,        \* datetime.now(timezone.utc), in ticks
    users,      \* db.users: sequence of user documents, _id = position
    inflight,   \* bag of authenticate_user calls between find_one and update_one
    attempts,   \* rate_limiter.attempts: key -> sequence of timestamps
    allowed,    \* history: key -> the times of the calls is_allowed answered True
    issued,     \* tokens handed out to clients so far (never stored server-side)
    burst,      \* wrong-password calls of a concurrent burst not yet started
    fails,      \* history: per _id, failed-password updates the store has applied
                \* since the registration or the last successful login
    resp,       \* outcome of the call that completed last
    auth_manager,       \* server_with_auth.py: TRUE once startup_event has set it
    strategies,         \* db.strategies: sequence of strategy documents, _id = position
    trading_is_active,  \* server.py: the flag of the trading engine
    background_tasks    \* server.py: the trading tasks added by start_trading, each
                        \* at its place in trading_background_task: "added" (by
                        \* add_task, not begun), "sleeping" (inside the loop,
                        \* awaiting asyncio.sleep(1)) or "returned"

vars == <<now, users, inflight, attempts, allowed, issued, burst, fails, resp,
          auth_manager, strategies, trading_is_active, background_tasks>>

\* what the authentication code never touches
server == <<auth_manager, strategies, trading_is_active, background_tasks>>

\* startup_event went through: the auth manager is set, no strategy is
\* stored; server.py's engine is in its initial state
startup_done ==
    /\ auth_manager = TRUE
    /\ strategies = << >>
    /\ trading_is_active = FALSE
    /\ background_tasks = << >>

(***************************** bounds *************************************)
TicksPerSecond == 2
MaxPeriods == 2
Slack == 2
MaxInflight == 2
MaxBurst == 10
MaxPairs == 2
MaxAllowed == 5
MaxHistory == 6
MaxBudget == 10
MaxStrategies == 1
MaxTasks == 3

(************************ program constants *******************************)
ACCESS_TOKEN_EXPIRE_MINUTES == 30
REFRESH_TOKEN_EXPIRE_DAYS == 7
LOCK_MINUTES == 15
LOCK_AFTER == 4
HTTP_200_OK == 200
HTTP_201_CREATED == 201
HTTP_400_BAD_REQUEST == 400
HTTP_401_UNAUTHORIZED == 401
HTTP_403_FORBIDDEN == 403
HTTP_404_NOT_FOUND == 404
HTTP_423_LOCKED == 423
HTTP_429_TOO_MANY_REQUESTS == 429
HTTP_500_INTERNAL_SERVER_ERROR == 500
HTTP_503_SERVICE_UNAVAILABLE == 503
MIN_PASSWORD_LENGTH == 8
LOGIN_MAX_ATTEMPTS == 5
LOGIN_WINDOW_MINUTES == 15
REGISTER_MAX_ATTEMPTS == 5
REGISTER_WINDOW_MINUTES == 60

SECRET_KEY == "SECRET_KEY"

\* server_with_auth.py line 180: the key of the registration budget
REGISTER_KEY == "register"

\* Python's None, and a present value, for the optional fields
None == <<>>
Some(x) == <<x>>

\* timedelta(minutes=m), timedelta(days=d) in ticks
minutes(m) == m * 60 * TicksPerSecond
days(d) == d * 24 * 60 * 60 * TicksPerSecond

(************************** UserRole **************************************)
ADMIN == "admin"
TRADER == "trader"
VIEWER == "viewer"
Roles == {ADMIN, TRADER, VIEWER}

\* mutant: a role outside the table is given the viewer's permissions
get_permissions_default_viewer(role) ==
    CASE role = ADMIN -> {"read:all", "write:all", "delete:all", "manage:users",
                          "manage:strategies", "execute:trades", "view:analytics"}
      [] role = TRADER -> {"read:own", "write:own", "manage:strategies",
                           "execute:trades", "view:analytics"}
      [] OTHER -> {"read:own", "view:analytics"}

\* lines 38-54: permissions.get(role, []), the list taken as a set
get_permissions(role) ==
    CASE role = ADMIN -> {"read:all", "write:all", "delete:all", "manage:users",
                          "manage:strategies", "execute:trades", "view:analytics"}
      [] role = TRADER -> {"read:own", "write:own", "manage:strategies",
                           "execute:trades", "view:analytics"}
      [] role = VIEWER -> {"read:own", "view:analytics"}
      [] OTHER -> {}

(************************* PasswordUtils **********************************)
\* passlib's bcrypt: the bytes of the password beyond this many are ignored
BCRYPT_TRUNCATE_SIZE == 72

\* a text of exactly BCRYPT_TRUNCATE_SIZE characters, and two passwords that
\* continue it differently
PREFIX == "Aa1!Aa1!Aa1!Aa1!Aa1!Aa1!Aa1!Aa1!Aa1!Aa1!Aa1!Aa1!Aa1!Aa1!Aa1!Aa1!Aa1!Aa1!"
LONG_X == "Aa1!Aa1!Aa1!Aa1!Aa1!Aa1!Aa1!Aa1!Aa1!Aa1!Aa1!Aa1!Aa1!Aa1!Aa1!Aa1!Aa1!Aa1!x?2"
LONG_Y == "Aa1!Aa1!Aa1!Aa1!Aa1!Aa1!Aa1!Aa1!Aa1!Aa1!Aa1!Aa1!Aa1!Aa1!Aa1!Aa1!Aa1!Aa1!y#3"

\* the characters of the passwords that occur in the model
chars(password) ==
    CASE password = PREFIX ->
            [i \in 1..BCRYPT_TRUNCATE_SIZE |-> <<"A", "a", "1", "!">>[((i - 1) % 4) + 1]]
      [] password = LONG_X ->
            [i \in 1..BCRYPT_TRUNCATE_SIZE |-> <<"A", "a", "1", "!">>[((i - 1) % 4) + 1]]
                \o <<"x", "?", "2">>
      [] password = LONG_Y ->
            [i \in 1..BCRYPT_TRUNCATE_SIZE |-> <<"A", "a", "1", "!">>[((i - 1) % 4) + 1]]
                \o <<"y", "#", "3">>
      [] password = "Right123!" -> <<"R", "i", "g", "h", "t", "1", "2", "3", "!">>
      [] password = "Wrong1!" -> <<"W", "r", "o", "n", "g", "1", "!">>
      [] password = "Sh0rt!a" -> <<"S", "h", "0", "r", "t", "!", "a">>
      [] password = "Abcdef1!" -> <<"A", "b", "c", "d", "e", "f", "1", "!">>
      [] password = "TestPass123!" ->
            <<"T", "e", "s", "t", "P", "a", "s", "s", "1", "2", "3", "!">>
      [] password = "Slash123/a" -> <<"S", "l", "a", "s", "h", "1", "2", "3", "/", "a">>
      [] password = "weak" -> <<"w", "e", "a", "k">>
      [] password = "NoNumbers!" -> <<"N", "o", "N", "u", "m", "b", "e", "r", "s", "!">>
      [] password = "nonumbers123!" ->
            <<"n", "o", "n", "u", "m", "b", "e", "r", "s", "1", "2", "3", "!">>
      [] password = "NOLOWER123!" ->
            <<"N", "O", "L", "O", "W", "E", "R", "1", "2", "3", "!">>
      [] password = "NoSpecialChars123" ->
            <<"N", "o", "S", "p", "e", "c", "i", "a", "l", "C", "h", "a", "r", "s",
              "1", "2", "3">>
      [] OTHER -> << >>

\* the texts of the model, and the text a sequence of characters spells
Texts ==
    {PREFIX, LONG_X, LONG_Y, "Right123!", "Wrong1!", "Sh0rt!a", "Abcdef1!",
     "TestPass123!", "Slash123/a", "weak", "NoNumbers!", "nonumbers123!",
     "NOLOWER123!", "NoSpecialChars123"}

text(cs) == CHOOSE s \in Texts : chars(s) = cs

\* what bcrypt takes of a password: its first BCRYPT_TRUNCATE_SIZE bytes
\* (passlib's bcrypt handler truncates silently, truncate_error is off)
bcrypt_secret(password) ==
    LET cs == chars(password)
    IN  IF Len(cs) <= BCRYPT_TRUNCATE_SIZE THEN password
        ELSE text(SubSeq(cs, 1, BCRYPT_TRUNCATE_SIZE))

\* pwd_context.hash: a bcrypt digest is a tagged one-way image of what
\* bcrypt takes of the password
get_password_hash(password) == <<"bcrypt", bcrypt_secret(password)>>

\* pwd_context.verify inside try/except: a malformed digest gives False
verify_password(plain_password, hashed_password) ==
    IF Len(hashed_password) = 2 /\ hashed_password[1] = "bcrypt"
    THEN hashed_password[2] = bcrypt_secret(plain_password)
    ELSE FALSE

\* str.isupper, str.islower, str.isdigit on one ASCII character, and the
\* punctuation of line 122
UPPER == {"A", "B", "C", "D", "E", "F", "G", "H", "I", "J", "K", "L", "M",
          "N", "O", "P", "Q", "R", "S", "T", "U", "V", "W", "X", "Y", "Z"}
LOWER == {"a", "b", "c", "d", "e", "f", "g", "h", "i", "j", "k", "l", "m",
          "n", "o", "p", "q", "r", "s", "t", "u", "v", "w", "x", "y", "z"}
DIGITS == {"0", "1", "2", "3", "4", "5", "6", "7", "8", "9"}
SPECIAL == {"!", "@", "#", "$", "%", "^", "&", "*", "(", ")", "_", "+", "-", "=",
            "[", "]", "{", "}", "|", ";", ":", ",", ".", "<", ">", "?"}

\* any(c in class for c in password)
any_in(cs, class) == \E i \in 1..Len(cs) : cs[i] \in class

\* mutant: a password of exactly the minimum length is refused
validate_password_strength_over_min(password) ==
    LET cs == chars(password)
    IN  IF Len(cs) <= MIN_PASSWORD_LENGTH THEN FALSE
        ELSE IF ~any_in(cs, UPPER) THEN FALSE
        ELSE IF ~any_in(cs, LOWER) THEN FALSE
        ELSE IF ~any_in(cs, DIGITS) THEN FALSE
        ELSE IF ~any_in(cs, SPECIAL) THEN FALSE
        ELSE TRUE

\* lines 112-124: the five tests, in the order of the code
validate_password_strength(password) ==
    LET cs == chars(password)
    IN  IF Len(cs) < MIN_PASSWORD_LENGTH THEN FALSE
        ELSE IF ~any_in(cs, UPPER) THEN FALSE
        ELSE IF ~any_in(cs, LOWER) THEN FALSE
        ELSE IF ~any_in(cs, DIGITS) THEN FALSE
        ELSE IF ~any_in(cs, SPECIAL) THEN FALSE
        ELSE TRUE

(*************************** user store ***********************************)
\* mutant: the password is stored as it is, not as a bcrypt digest
user_doc_plain_password(username, email, password, role) ==
    [username |-> username, email |-> email,
     password_hash |-> <<"plain", password>>,
     role |-> role, is_active |-> TRUE, last_login |-> None,
     login_attempts |-> 0, locked_until |-> None]

\* the document create_user inserts
user_doc(username, email, password, role) ==
    [username |-> username, email |-> email,
     password_hash |-> get_password_hash(password),
     role |-> role, is_active |-> TRUE, last_login |-> None,
     login_attempts |-> 0, locked_until |-> None]

\* db.users.find_one({"username": username}): the _id of the first match, 0 for None
find_one(username) ==
    IF \E i \in 1..Len(users) : users[i].username = username
    THEN CHOOSE i \in 1..Len(users) :
            /\ users[i].username = username
            /\ \A j \in 1..(i - 1) : users[j].username # username
    ELSE 0

\* DatabaseManager.update_user with {"is_active": b}: account management
update_user_active(id, b) ==
    /\ id \in 1..Len(users)
    /\ users[id].is_active # b
    /\ users' = [users EXCEPT ![id].is_active = b]
    /\ UNCHANGED <<server, now, inflight, attempts, allowed, issued, burst, fails, resp>>

\* DatabaseManager.update_user with {"role": r}
update_user_role(id, r) ==
    /\ id \in 1..Len(users)
    /\ users[id].role # r
    /\ users' = [users EXCEPT ![id].role = r]
    /\ UNCHANGED <<server, now, inflight, attempts, allowed, issued, burst, fails, resp>>

\* DatabaseManager.update_user with {"username": name}; the unique index on
\* username (database.py line 197) refuses a name another document holds
update_user_username(id, name) ==
    /\ id \in 1..Len(users)
    /\ \A j \in 1..Len(users) : users[j].username # name
    /\ users' = [users EXCEPT ![id].username = name]
    /\ UNCHANGED <<server, now, inflight, attempts, allowed, issued, burst, fails, resp>>

(****************************** clock *************************************)
\* the wall clock moves forward to instant t
Advance(t) ==
    /\ t > now
    /\ now' = t
    /\ UNCHANGED <<server, users, inflight, attempts, allowed, issued, burst, fails, resp>>

(***************************** JWTManager *********************************)
\* python-jose, jwt.encode: a datetime claim is stored as whole seconds
\* (timegm(exp.utctimetuple())), the fraction of a second is dropped
timegm(t) == t \div TicksPerSecond

\* a compact JWS is three segments: header.claims.signature
JWS_SEGMENTS == 3

\* jwt.encode(to_encode, SECRET_KEY): HS256 is deterministic, so a token is
\* the value of its claims together with the key that signed it
encode(claims, key) == [claims |-> claims, key |-> key, segments |-> JWS_SEGMENTS]

\* to_encode = data.copy(); to_encode.update(more): the claims of data, with
\* those of more added or put in their place
update(data, more) ==
    [k \in DOMAIN data \cup DOMAIN more |-> IF k \in DOMAIN more THEN more[k] ELSE data[k]]

\* lines 130-140: create_access_token(data) with the default lifetime
create_access_token(data, t) ==
    encode(update(data, [exp |-> timegm(t + minutes(ACCESS_TOKEN_EXPIRE_MINUTES)),
                         type |-> "access"]), SECRET_KEY)

\* lines 143-149: create_refresh_token(data)
create_refresh_token(data, t) ==
    encode(update(data, [exp |-> timegm(t + days(REFRESH_TOKEN_EXPIRE_DAYS)),
                         type |-> "refresh"]), SECRET_KEY)

\* python-jose, jwt.decode: JWTError for a text that is not three segments
\* ("Not enough segments"), for a signature made with another key, and
\* ExpiredSignatureError (a JWTError) when exp < timegm(utcnow().utctimetuple())
decodes(token, t) ==
    /\ token.segments = JWS_SEGMENTS
    /\ token.key = SECRET_KEY
    /\ ~(token.claims.exp < timegm(t))

\* mutant: the payload's type is not compared with the expected one
verify_token_any_type(token, token_type, t) ==
    IF ~decodes(token, t) THEN None
    ELSE Some(token.claims)

\* lines 152-161: the payload, or None
verify_token(token, token_type, t) ==
    IF ~decodes(token, t) THEN None
    ELSE IF token.claims.type # token_type THEN None
    ELSE Some(token.claims)

(***************************** RateLimiter ********************************)
\* self.attempts.get(key, []) as is_allowed sees it
window_of(key) == IF key \in DOMAIN attempts THEN attempts[key] ELSE << >>

\* lines 417-420: the attempts newer than window_start
pruned(key, window_minutes, t) ==
    LET old == window_of(key)
        keep(a) == a > t - minutes(window_minutes)
    IN  SelectSeq(old, keep)

\* mutant: the limit is compared with > instead of >=
is_allowed_one_more(key, max_attempts, window_minutes, t) ==
    ~(Len(pruned(key, window_minutes, t)) > max_attempts)

\* lines 423-428: the value is_allowed returns
is_allowed(key, max_attempts, window_minutes, t) ==
    ~(Len(pruned(key, window_minutes, t)) >= max_attempts)

\* mutant: the call is not recorded
attempts_after_no_record(key, max_attempts, window_minutes, t) ==
    LET kept == pruned(key, window_minutes, t)
    IN  [k \in DOMAIN attempts \cup {key} |-> IF k = key THEN kept ELSE attempts[k]]

\* mutant: the current time is recorded for a rejected call too
attempts_after_always_record(key, max_attempts, window_minutes, t) ==
    LET kept == pruned(key, window_minutes, t)
        entry == Append(kept, t)
    IN  [k \in DOMAIN attempts \cup {key} |-> IF k = key THEN entry ELSE attempts[k]]

\* mutant: one list of attempts shared by all keys
attempts_after_one_window(key, max_attempts, window_minutes, t) ==
    LET kept == pruned(key, window_minutes, t)
        entry == IF is_allowed(key, max_attempts, window_minutes, t)
                 THEN Append(kept, t) ELSE kept
    IN  [k \in DOMAIN attempts \cup {key} |-> entry]

\* mutant: the list is written back from a copy that misses the other entries
attempts_after_lost_update(key, max_attempts, window_minutes, t) ==
    LET kept == pruned(key, window_minutes, t)
        entry == IF is_allowed(key, max_attempts, window_minutes, t)
                 THEN <<t>> ELSE kept
    IN  [k \in DOMAIN attempts \cup {key} |-> IF k = key THEN entry ELSE attempts[k]]

\* lines 413-428: self.attempts after the call
attempts_after(key, max_attempts, window_minutes, t) ==
    LET kept == pruned(key, window_minutes, t)
        entry == IF is_allowed(key, max_attempts, window_minutes, t)
                 THEN Append(kept, t) ELSE kept
    IN  [k \in DOMAIN attempts \cup {key} |-> IF k = key THEN entry ELSE attempts[k]]

\* the history of allowed calls after the call
allowed_after(key, max_attempts, window_minutes, t) ==
    LET old == IF key \in DOMAIN allowed THEN allowed[key] ELSE << >>
        entry == IF is_allowed(key, max_attempts, window_minutes, t)
                 THEN Append(old, t) ELSE old
    IN  [k \in DOMAIN allowed \cup {key} |-> IF k = key THEN entry ELSE allowed[k]]

(*********************** AuthManager.authenticate_user ********************)
\* the detail texts of the HTTPExceptions of lines 229-240
LOCKED == "Account is temporarily locked due to too many failed login attempts"
DEACTIVATED == "Account is deactivated"

\* mutant: the comparison of line 228 turned round
is_locked_inverted(user, t) ==
    user.locked_until # None /\ user.locked_until[1] < t

\* line 228: the stored lockout-expiry is still ahead of the clock
is_locked(user, t) ==
    user.locked_until # None /\ user.locked_until[1] > t

\* mutant: only the failure that reaches the threshold locks
lock_value_threshold_only(user, t) ==
    IF user.login_attempts = LOCK_AFTER
    THEN Some(t + minutes(LOCK_MINUTES))
    ELSE None

\* mutant: the lock is set one failure late
lock_value_late(user, t) ==
    IF user.login_attempts >= LOCK_AFTER + 1
    THEN Some(t + minutes(LOCK_MINUTES))
    ELSE None

\* lines 249-250: the $set value, from the counter the call has READ
lock_value(user, t) ==
    IF user.login_attempts >= LOCK_AFTER
    THEN Some(t + minutes(LOCK_MINUTES))
    ELSE None

\* mutant: an unknown username is told apart from a wrong password
decide_unknown_404(id, password, t) ==
    IF id = 0 THEN [ret |-> "raise", code |-> 404, detail |-> "User not found"]
    ELSE IF is_locked(users[id], t)
         THEN [ret |-> "raise", code |-> HTTP_423_LOCKED, detail |-> LOCKED]
    ELSE IF ~users[id].is_active
         THEN [ret |-> "raise", code |-> HTTP_403_FORBIDDEN, detail |-> DEACTIVATED]
    ELSE IF ~verify_password(password, users[id].password_hash)
         THEN [ret |-> "fail", code |-> 0, detail |-> ""]
    ELSE [ret |-> "user", code |-> 0, detail |-> ""]

\* mutant: the active check made before the lock check
decide_active_first(id, password, t) ==
    IF id = 0 THEN [ret |-> "None", code |-> 0, detail |-> ""]
    ELSE IF ~users[id].is_active
         THEN [ret |-> "raise", code |-> HTTP_403_FORBIDDEN, detail |-> DEACTIVATED]
    ELSE IF is_locked(users[id], t)
         THEN [ret |-> "raise", code |-> HTTP_423_LOCKED, detail |-> LOCKED]
    ELSE IF ~verify_password(password, users[id].password_hash)
         THEN [ret |-> "fail", code |-> 0, detail |-> ""]
    ELSE [ret |-> "user", code |-> 0, detail |-> ""]

\* lines 224-268: what the call decides from the document it read at time t
\*   ret: "None" | "raise" | "fail" (update, then None) | "user" (update, then user)
decide(id, password, t) ==
    IF id = 0 THEN [ret |-> "None", code |-> 0, detail |-> ""]
    ELSE IF is_locked(users[id], t)
         THEN [ret |-> "raise", code |-> HTTP_423_LOCKED, detail |-> LOCKED]
    ELSE IF ~users[id].is_active
         THEN [ret |-> "raise", code |-> HTTP_403_FORBIDDEN, detail |-> DEACTIVATED]
    ELSE IF ~verify_password(password, users[id].password_hash)
         THEN [ret |-> "fail", code |-> 0, detail |-> ""]
    ELSE [ret |-> "user", code |-> 0, detail |-> ""]

\* mutant: the failure that sets the lock starts the count again
failed_update_restart(doc, lock) ==
    [doc EXCEPT !.login_attempts = IF lock # None THEN 0 ELSE @ + 1,
                !.locked_until = lock]

\* mutant: the counter stops at the threshold instead of counting every failure
failed_update_capped(doc, lock) ==
    [doc EXCEPT !.login_attempts = IF @ >= LOCK_AFTER + 1 THEN @ ELSE @ + 1,
                !.locked_until = lock]

\* mutant: a failure is stamped as a login too
failed_update_stamped(doc, lock) ==
    [doc EXCEPT !.login_attempts = @ + 1, !.locked_until = lock,
                !.last_login = Some(0)]

\* lines 244-253: update_one with $inc and $set, applied by the store to the
\* document as it is stored now
failed_update(doc, lock) ==
    [doc EXCEPT !.login_attempts = @ + 1, !.locked_until = lock]

\* mutant: a successful login that forgets to reset the failure counter
success_update_no_reset(doc, t) ==
    [doc EXCEPT !.last_login = Some(t), !.locked_until = None]

\* lines 257-266: update_one with $set of last_login, login_attempts, locked_until
success_update(doc, t) ==
    [doc EXCEPT !.last_login = Some(t), !.login_attempts = 0, !.locked_until = None]

\* the fields of the document read that the callers of authenticate_user use
returned(user) == [username |-> user.username, role |-> user.role]

\* the outcome a caller observes: the request (op, username, password, the
\* token presented), what is returned or raised, the Token pair returned and
\* the TokenData attached to the user
Outcome(op, username, password, token, ret, code, tokens, token_data) ==
    [op |-> op, username |-> username, password |-> password, token |-> token,
     ret |-> ret, code |-> code, detail |-> "", tokens |-> tokens,
     token_data |-> token_data]

\* raise HTTPException(status_code=..., detail=...) as the answer to a request
HTTPException(op, username, password, token, status_code, detail) ==
    [Outcome(op, username, password, token, "raise", status_code, None, None)
        EXCEPT !.detail = detail]

\* server_with_auth.py lines 214-226: login_user turns None into 401 and lets
\* the HTTPException of authenticate_user through
login_reply(username, password, ret, code, detail) ==
    IF ret = "None"
    THEN HTTPException("login", username, password, None, HTTP_401_UNAUTHORIZED,
                       "Invalid username or password")
    ELSE [Outcome("login", username, password, None, ret, code, None, None)
            EXCEPT !.detail = detail]

\* what the caller of authenticate_user (a test, or login_user) answers
reply(op, username, password, ret, code, detail) ==
    IF op = "login" THEN login_reply(username, password, ret, code, detail)
    ELSE [Outcome(op, username, password, None, ret, code, None, None)
            EXCEPT !.detail = detail]

\* mutant: the refresh token is made from the full token data
create_tokens_full_refresh(id, user, t) ==
    LET token_data == [sub |-> user.username, user_id |-> id, role |-> user.role,
                       permissions |-> get_permissions(user.role)]
    IN  <<create_access_token(token_data, t),
          create_refresh_token(token_data, t)>>

\* lines 270-286: create_tokens(user) at time t
create_tokens(id, user, t) ==
    LET token_data == [sub |-> user.username, user_id |-> id, role |-> user.role,
                       permissions |-> get_permissions(user.role)]
    IN  <<create_access_token(token_data, t),
          create_refresh_token([sub |-> user.username], t)>>

\* lines 222-253: find_one and the code up to the await of update_one
authenticate_read(op, username, password) ==
    LET id == find_one(username)
        d == decide(id, password, now)
    IN  IF d.ret \in {"None", "raise"}
        THEN /\ resp' = reply(op, username, password, d.ret, d.code, d.detail)
             /\ UNCHANGED <<server, now, users, inflight, issued, fails>>
        ELSE /\ inflight' = inflight (+) SetToBag({
                    [op |-> op, id |-> id, user |-> returned(users[id]), password |-> password,
                     ret |-> d.ret, lock |-> lock_value(users[id], now), at |-> now]})
             /\ UNCHANGED <<server, now, users, issued, fails, resp>>

\* lines 244-268: update_one at the store, then the return to the caller
authenticate_write(call) ==
    /\ BagIn(call, inflight)
    /\ inflight' = inflight (-) SetToBag({call})
    /\ users' = [users EXCEPT ![call.id] =
                    IF call.ret = "fail" THEN failed_update(@, call.lock)
                    ELSE success_update(@, call.at)]
    /\ fails' = [fails EXCEPT ![call.id] = IF call.ret = "fail" THEN @ + 1 ELSE 0]
    /\ IF call.op = "login" /\ call.ret = "user"
       THEN LET tokens == create_tokens(call.id, call.user, now)
            IN  /\ issued' = issued \cup {tokens[1], tokens[2]}
                /\ resp' = Outcome("login", call.user.username, call.password, None,
                                   "Token", HTTP_200_OK, tokens, None)
       ELSE /\ issued' = issued
            /\ resp' = reply(call.op, call.user.username, call.password,
                             IF call.ret = "fail" THEN "None" ELSE "user", 0, "")
    /\ UNCHANGED <<server, now>>

(******************** refresh_access_token, get_current_user **************)
\* mutant: a refresh that does not look at is_active
refresh_access_token_any_user(token) ==
    LET payload == verify_token(token, "refresh", now)
        id == IF payload = None THEN 0 ELSE find_one(payload[1].sub)
    IN  /\ IF payload = None \/ id = 0
           THEN /\ resp' = HTTPException("refresh", token.claims.sub, "", Some(token),
                                         HTTP_401_UNAUTHORIZED,
                                         IF payload = None THEN "Invalid refresh token"
                                         ELSE "User not found or inactive")
                /\ issued' = issued
           ELSE LET tokens == create_tokens(id, users[id], now)
                IN  /\ issued' = issued \cup {tokens[1], tokens[2]}
                    /\ resp' = Outcome("refresh", token.claims.sub, "", Some(token), "Token",
                                       HTTP_200_OK, tokens, None)
        /\ UNCHANGED <<server, now, users, inflight, attempts, allowed, burst, fails>>

\* mutant: only the newest refresh token handed out is accepted
refresh_access_token_rotating(token) ==
    LET payload == verify_token(token, "refresh", now)
        id == IF payload = None THEN 0 ELSE find_one(payload[1].sub)
    IN  /\ IF payload = None \/ id = 0 \/ ~users[id].is_active
              \/ \E other \in issued : other.claims.type = "refresh" /\ other.claims.exp > token.claims.exp
           THEN /\ resp' = HTTPException("refresh", token.claims.sub, "", Some(token),
                                         HTTP_401_UNAUTHORIZED,
                                         IF payload = None THEN "Invalid refresh token"
                                         ELSE "User not found or inactive")
                /\ issued' = issued
           ELSE LET tokens == create_tokens(id, users[id], now)
                IN  /\ issued' = issued \cup {tokens[1], tokens[2]}
                    /\ resp' = Outcome("refresh", token.claims.sub, "", Some(token), "Token",
                                       HTTP_200_OK, tokens, None)
        /\ UNCHANGED <<server, now, users, inflight, attempts, allowed, burst, fails>>

\* mutant: a locked user is refused new tokens
refresh_access_token_unless_locked(token) ==
    LET payload == verify_token(token, "refresh", now)
        id == IF payload = None THEN 0 ELSE find_one(payload[1].sub)
    IN  /\ IF payload = None \/ id = 0 \/ ~users[id].is_active \/ is_locked(users[id], now)
           THEN /\ resp' = HTTPException("refresh", token.claims.sub, "", Some(token),
                                         HTTP_401_UNAUTHORIZED,
                                         IF payload = None THEN "Invalid refresh token"
                                         ELSE "User not found or inactive")
                /\ issued' = issued
           ELSE LET tokens == create_tokens(id, users[id], now)
                IN  /\ issued' = issued \cup {tokens[1], tokens[2]}
                    /\ resp' = Outcome("refresh", token.claims.sub, "", Some(token), "Token",
                                       HTTP_200_OK, tokens, None)
        /\ UNCHANGED <<server, now, users, inflight, attempts, allowed, burst, fails>>

\* lines 288-307, behind the /auth/refresh endpoint (server_with_auth.py
\* lines 237-256, which passes the HTTPException on)
refresh_access_token(token) ==
    LET payload == verify_token(token, "refresh", now)
        id == IF payload = None THEN 0 ELSE find_one(payload[1].sub)
    IN  /\ IF payload = None \/ id = 0 \/ ~users[id].is_active
           THEN /\ resp' = HTTPException("refresh", token.claims.sub, "", Some(token),
                                         HTTP_401_UNAUTHORIZED,
                                         IF payload = None THEN "Invalid refresh token"
                                         ELSE "User not found or inactive")
                /\ issued' = issued
           ELSE LET tokens == create_tokens(id, users[id], now)
                IN  /\ issued' = issued \cup {tokens[1], tokens[2]}
                    /\ resp' = Outcome("refresh", token.claims.sub, "", Some(token), "Token",
                                       HTTP_200_OK, tokens, None)
        /\ UNCHANGED <<server, now, users, inflight, attempts, allowed, burst, fails>>

\* lines 309-344: the user together with the TokenData attached to it
get_current_user(token) ==
    LET payload == verify_token(token, "access", now)
        id == IF payload = None THEN 0 ELSE find_one(payload[1].sub)
    IN  /\ resp' =
             IF payload = None
             THEN HTTPException("me", token.claims.sub, "", Some(token),
                                HTTP_401_UNAUTHORIZED, "Invalid authentication credentials")
             ELSE IF id = 0
             THEN HTTPException("me", token.claims.sub, "", Some(token),
                                HTTP_401_UNAUTHORIZED, "User not found")
             ELSE IF ~users[id].is_active
             THEN HTTPException("me", token.claims.sub, "", Some(token),
                                HTTP_403_FORBIDDEN, DEACTIVATED)
             ELSE Outcome("me", token.claims.sub, "", Some(token), "user", HTTP_200_OK, None,
                          Some([username |-> payload[1].sub, user_id |-> id,
                                role |-> users[id].role,
                                permissions |-> get_permissions(users[id].role)]))
        /\ UNCHANGED <<server, now, users, inflight, attempts, allowed, issued, burst, fails>>

(******************************* login_user *******************************)
\* f"login_{username}"
login_key(username) == "login_" \o username

\* server_with_auth.py lines 162-166, 172-176, 201-205, 240-244: what every
\* endpoint that needs the auth manager does first when it is unset
UNAVAILABLE == "Authentication service not available"

not_available(response) ==
    /\ resp' = response
    /\ UNCHANGED <<server, now, users, inflight, attempts, allowed, issued, burst, fails>>

\* mutant: the credentials are checked whatever the rate limiter says
login_user_unlimited(username, password) ==
    LET key == login_key(username)
    IN  IF ~auth_manager
        THEN not_available(HTTPException("login", username, password, None,
                                         HTTP_503_SERVICE_UNAVAILABLE, UNAVAILABLE))
        ELSE /\ attempts' = attempts_after(key, LOGIN_MAX_ATTEMPTS, LOGIN_WINDOW_MINUTES, now)
             /\ allowed' = allowed_after(key, LOGIN_MAX_ATTEMPTS, LOGIN_WINDOW_MINUTES, now)
             /\ authenticate_read("login", username, password)
             /\ UNCHANGED burst

\* mutant: the rate limiter is asked before the auth manager is looked at
login_user_limit_first(username, password) ==
    LET key == login_key(username)
    IN  /\ attempts' = attempts_after(key, LOGIN_MAX_ATTEMPTS, LOGIN_WINDOW_MINUTES, now)
        /\ allowed' = allowed_after(key, LOGIN_MAX_ATTEMPTS, LOGIN_WINDOW_MINUTES, now)
        /\ IF ~is_allowed(key, LOGIN_MAX_ATTEMPTS, LOGIN_WINDOW_MINUTES, now)
           THEN /\ resp' = HTTPException("login", username, password, None,
                                         HTTP_429_TOO_MANY_REQUESTS,
                                         "Too many login attempts. Please try again later.")
                /\ UNCHANGED <<server, now, users, inflight, issued, fails>>
           ELSE IF ~auth_manager
           THEN /\ resp' = HTTPException("login", username, password, None,
                                         HTTP_503_SERVICE_UNAVAILABLE, UNAVAILABLE)
                /\ UNCHANGED <<server, now, users, inflight, issued, fails>>
           ELSE authenticate_read("login", username, password)
        /\ UNCHANGED burst

\* server_with_auth.py lines 201-215: the auth manager must be set, then the
\* rate-limit check, then the call of authenticate_user up to its update_one
login_user(username, password) ==
    LET key == login_key(username)
    IN  IF ~auth_manager
        THEN not_available(HTTPException("login", username, password, None,
                                         HTTP_503_SERVICE_UNAVAILABLE, UNAVAILABLE))
        ELSE /\ attempts' = attempts_after(key, LOGIN_MAX_ATTEMPTS, LOGIN_WINDOW_MINUTES, now)
             /\ allowed' = allowed_after(key, LOGIN_MAX_ATTEMPTS, LOGIN_WINDOW_MINUTES, now)
             /\ IF ~is_allowed(key, LOGIN_MAX_ATTEMPTS, LOGIN_WINDOW_MINUTES, now)
                THEN /\ resp' = HTTPException("login", username, password, None,
                                              HTTP_429_TOO_MANY_REQUESTS,
                                              "Too many login attempts. Please try again later.")
                     /\ UNCHANGED <<server, now, users, inflight, issued, fails>>
                ELSE authenticate_read("login", username, password)
             /\ UNCHANGED burst

\* server_with_auth.py lines 237-256: the auth manager must be set, then
\* refresh_access_token, whose HTTPException is passed on
refresh_token(token) ==
    IF ~auth_manager
    THEN not_available(HTTPException("refresh", token.claims.sub, "", Some(token),
                                     HTTP_503_SERVICE_UNAVAILABLE, UNAVAILABLE))
    ELSE refresh_access_token(token)

\* server_with_auth.py lines 160-167 and 258-270: the dependency that
\* resolves the current user for /auth/me, once the auth manager is set
get_current_user_info(token) ==
    IF ~auth_manager
    THEN not_available(HTTPException("me", token.claims.sub, "", Some(token),
                                     HTTP_503_SERVICE_UNAVAILABLE, UNAVAILABLE))
    ELSE get_current_user(token)

(*********************** operations of the specifications *****************)
Usernames == {"alice", "nobody"}
RIGHT == "Right123!"
WRONG == "Wrong1!"
Passwords == {RIGHT, WRONG}

\* a direct call of AuthManager.authenticate_user, as the tests make it
Authenticate(username, password) ==
    /\ BagCardinality(inflight) < MaxInflight
    /\ authenticate_read("authenticate", username, password)
    /\ UNCHANGED <<attempts, allowed, burst>>

\* the same call, made only when no other call is in flight
AuthenticateAlone(username, password) ==
    /\ inflight = EmptyBag
    /\ authenticate_read("authenticate", username, password)
    /\ UNCHANGED <<attempts, allowed, burst>>

\* one call of a burst of simultaneous wrong-password calls
AuthenticateBurst ==
    /\ burst > 0
    /\ burst' = burst - 1
    /\ authenticate_read("authenticate", "alice", WRONG)
    /\ UNCHANGED <<attempts, allowed>>

AuthenticateDone(call) ==
    /\ call.op = "authenticate"
    /\ authenticate_write(call)
    /\ UNCHANGED <<attempts, allowed, burst>>

SetActive(id, b) == update_user_active(id, b)

\* the instants the clock visits: around every multiple of the lockout duration
LockInstants ==
    {p * minutes(LOCK_MINUTES) + o : p \in 0..MaxPeriods, o \in (0 - Slack)..Slack}
        \cap Nat

Tick == \E t \in LockInstants : Advance(t)

\* the multiples of the lockout duration alone
TickPeriod == \E p \in 1..MaxPeriods : Advance(p * minutes(LOCK_MINUTES))

NoResp == Outcome("", "", "", None, "", 0, None, None)

\* one freshly registered user, as create_user leaves it
InitAuth ==
    /\ startup_done
    /\ now = 0
    /\ users = <<user_doc("alice", "alice@example.com", RIGHT, TRADER)>>
    /\ inflight = EmptyBag
    /\ attempts = << >>
    /\ allowed = << >>
    /\ issued = {}
    /\ burst = 0
    /\ fails = <<0>>
    /\ resp = NoResp

\* authenticate_user called one call at a time
NextSeq ==
    \/ \E u \in Usernames, pw \in Passwords : AuthenticateAlone(u, pw)
    \/ \E call \in BagToSet(inflight) : AuthenticateDone(call)
    \/ \E b \in BOOLEAN : SetActive(1, b)
    \/ Tick

SpecSeq == InitAuth /\ [][NextSeq]_vars

\* authenticate_user called by up to MaxInflight concurrent requests
NextRace ==
    \/ \E u \in Usernames, pw \in Passwords : Authenticate(u, pw)
    \/ \E call \in BagToSet(inflight) : AuthenticateDone(call)
    \/ \E b \in BOOLEAN : SetActive(1, b)
    \/ TickPeriod

SpecRace == InitAuth /\ [][NextRace]_vars

\* N >= 10 simultaneous wrong-password calls on the fresh user
InitBurst ==
    /\ startup_done
    /\ now = 0
    /\ users = <<user_doc("alice", "alice@example.com", RIGHT, TRADER)>>
    /\ inflight = EmptyBag
    /\ attempts = << >>
    /\ allowed = << >>
    /\ issued = {}
    /\ burst \in 10..MaxBurst
    /\ fails = <<0>>
    /\ resp = NoResp

NextBurst ==
    \/ AuthenticateBurst
    \/ \E call \in BagToSet(inflight) : AuthenticateDone(call)

SpecBurst == InitBurst /\ [][NextBurst]_vars

\* the number of calls the rate limiter has allowed so far, all keys together
TotalAllowed ==
    Cardinality(UNION {{<<k, i>> : i \in 1..Len(allowed[k])} : k \in DOMAIN allowed})

\* a request is made while the history has room for it (fewer than bound
\* allowed calls so far), or when the rate limiter turns it away
Room(bound, key, max_attempts, window_minutes) ==
    TotalAllowed < bound \/ ~is_allowed(key, max_attempts, window_minutes, now)

\* a POST /auth/login request, made when no other call is in flight
Login(username, password) ==
    /\ inflight = EmptyBag
    /\ Cardinality(issued) < 2 * MaxPairs
    /\ Room(MaxAllowed, login_key(username), LOGIN_MAX_ATTEMPTS, LOGIN_WINDOW_MINUTES)
    /\ login_user(username, password)

LoginDone(call) ==
    /\ call.op = "login"
    /\ authenticate_write(call)
    /\ UNCHANGED <<attempts, allowed, burst>>

\* a POST /auth/refresh request with a token some client holds
Refresh(token) ==
    /\ refresh_token(token)
    /\ Cardinality(issued') <= 2 * MaxPairs

\* a GET /auth/me request with a token some client holds
Me(token) == get_current_user_info(token)

SetRole(id, r) == update_user_role(id, r)

Rename(id, name) == update_user_username(id, name)

\* the clock passes the lockout duration, once
TickOnce == now = 0 /\ Advance(minutes(LOCK_MINUTES))

\* direct calls and login requests on one user, with deactivation
NextLogin ==
    \/ \E u \in Usernames, pw \in Passwords : AuthenticateAlone(u, pw)
    \/ \E call \in BagToSet(inflight) : AuthenticateDone(call)
    \/ \E u \in Usernames, pw \in Passwords : Login(u, pw)
    \/ \E call \in BagToSet(inflight) : LoginDone(call)
    \/ \E b \in BOOLEAN : SetActive(1, b)
    \/ TickOnce

SpecLogin == InitAuth /\ [][NextLogin]_vars

\* the instants around the start and around the two token lifetimes
TokenInstants ==
    {d + o : d \in {0, minutes(ACCESS_TOKEN_EXPIRE_MINUTES), days(REFRESH_TOKEN_EXPIRE_DAYS)},
             o \in (0 - Slack)..Slack} \cap Nat

TickToken == \E t \in TokenInstants : Advance(t)

\* the state a first login at time 0 leaves: the pair is in the client's hands
InitToken ==
    LET tokens == create_tokens(1, user_doc("alice", "alice@example.com", RIGHT, TRADER), 0)
    IN  /\ startup_done
        /\ now = 0
        /\ users = <<[user_doc("alice", "alice@example.com", RIGHT, TRADER)
                        EXCEPT !.last_login = Some(0)]>>
        /\ inflight = EmptyBag
        /\ attempts = [k \in {login_key("alice")} |-> <<0>>]
        /\ allowed = [k \in {login_key("alice")} |-> <<0>>]
        /\ issued = {tokens[1], tokens[2]}
        /\ burst = 0
        /\ fails = <<0>>
        /\ resp = Outcome("login", "alice", RIGHT, None, "Token", HTTP_200_OK, tokens, None)

\* a token signed with a key that is not the server's
forge(token) == encode(token.claims, "ATTACKER_KEY")

\* a token whose text lost its signature segment
truncate(token) == [token EXCEPT !.segments = JWS_SEGMENTS - 1]

\* what a client can present: the tokens handed out, forgeries of them and
\* malformed texts
Presented ==
    issued \cup {forge(token) : token \in issued} \cup {truncate(token) : token \in issued}

\* refreshes and current-user resolutions with genuine and forged tokens
\* while the clock runs over the two lifetimes
NextToken ==
    \/ \E token \in Presented : Refresh(token)
    \/ \E token \in Presented : Me(token)
    \/ TickToken

SpecToken == InitToken /\ [][NextToken]_vars

\* one second later, and one second after the first access token's lifetime
AccountInstants ==
    {TicksPerSecond, minutes(ACCESS_TOKEN_EXPIRE_MINUTES) + TicksPerSecond}

TickAccount == \E t \in AccountInstants : Advance(t)

\* refreshes and current-user resolutions while account management
\* deactivates, reactivates, renames the user and changes its role
NextAccount ==
    \/ \E token \in issued : Refresh(token)
    \/ \E token \in issued : Me(token)
    \/ \E b \in BOOLEAN : SetActive(1, b)
    \/ \E r \in Roles : SetRole(1, r)
    \/ \E name \in {"alice", "alicia"} : Rename(1, name)
    \/ TickAccount

SpecAccount == InitToken /\ [][NextAccount]_vars

\* concurrent authenticate calls on the user of the first login, together
\* with refreshes, current-user resolutions, deactivation and the passing of
\* the lockout duration
NextCounter ==
    \/ \E pw \in Passwords : Authenticate("alice", pw)
    \/ \E call \in BagToSet(inflight) : AuthenticateDone(call)
    \/ \E token \in issued : Refresh(token)
    \/ \E token \in issued : Me(token)
    \/ \E b \in BOOLEAN : SetActive(1, b)
    \/ TickOnce

SpecCounter == InitToken /\ [][NextCounter]_vars

\* one second after the first access token's lifetime, and one second
\* before the end of the first refresh token's lifetime
SessionInstants ==
    {minutes(ACCESS_TOKEN_EXPIRE_MINUTES) + TicksPerSecond,
     days(REFRESH_TOKEN_EXPIRE_DAYS) - TicksPerSecond}

TickSession == \E t \in SessionInstants : Advance(t)

\* a POST /auth/login request, made when no other call is in flight
LoginSession(username, password) ==
    /\ inflight = EmptyBag
    /\ Room(MaxAllowed, login_key(username), LOGIN_MAX_ATTEMPTS, LOGIN_WINDOW_MINUTES)
    /\ login_user(username, password)

\* the user of the first login logs in again and again, while every token
\* handed out so far is presented for refreshes and current-user resolutions
NextSession ==
    \/ \E pw \in Passwords : LoginSession("alice", pw)
    \/ \E call \in BagToSet(inflight) : LoginDone(call)
    \/ \E token \in issued : refresh_access_token(token)
    \/ \E token \in issued : Me(token)
    \/ TickSession

SpecSession == InitToken /\ [][NextSession]_vars

\* two registered users, each holding the pair of a first login at time 0
InitFrame ==
    LET alice == user_doc("alice", "alice@example.com", RIGHT, TRADER)
        bob == user_doc("bob", "bob@example.com", RIGHT, "viewer")
    IN  /\ startup_done
        /\ now = 0
        /\ users = <<[alice EXCEPT !.last_login = Some(0)],
                     [bob EXCEPT !.last_login = Some(0)]>>
        /\ inflight = EmptyBag
        /\ attempts = [k \in {login_key("alice"), login_key("bob")} |-> <<0>>]
        /\ allowed = [k \in {login_key("alice"), login_key("bob")} |-> <<0>>]
        /\ issued = {create_tokens(1, alice, 0)[1], create_tokens(1, alice, 0)[2],
                     create_tokens(2, bob, 0)[1], create_tokens(2, bob, 0)[2]}
        /\ burst = 0
        /\ fails = <<0, 0>>
        /\ resp = Outcome("login", "bob", RIGHT, None, "Token", HTTP_200_OK,
                          create_tokens(2, bob, 0), None)

\* authenticate calls, refreshes and current-user resolutions for two users
\* and for an unknown name, with the lockout duration passing once
NextFrame ==
    \/ \E u \in {"alice", "bob", "nobody"}, pw \in Passwords : AuthenticateAlone(u, pw)
    \/ \E call \in BagToSet(inflight) : AuthenticateDone(call)
    \/ \E token \in issued : refresh_access_token(token)
    \/ \E token \in issued : Me(token)
    \/ TickOnce

SpecFrame == InitFrame /\ [][NextFrame]_vars

(************************** user store failing ****************************)
\* a motor call raises (ServerSelectionTimeoutError, AutoReconnect,
\* NetworkTimeout): none of them is an HTTPException

\* server_with_auth.py lines 207-232 when find_one of authenticate_user
\* raises: the budget is used, "except Exception" answers 500
login_user_find_error(username, password) ==
    LET key == login_key(username)
    IN  /\ is_allowed(key, LOGIN_MAX_ATTEMPTS, LOGIN_WINDOW_MINUTES, now)
        /\ attempts' = attempts_after(key, LOGIN_MAX_ATTEMPTS, LOGIN_WINDOW_MINUTES, now)
        /\ allowed' = allowed_after(key, LOGIN_MAX_ATTEMPTS, LOGIN_WINDOW_MINUTES, now)
        /\ resp' = HTTPException("login", username, password, None,
                                 HTTP_500_INTERNAL_SERVER_ERROR, "Login failed")
        /\ UNCHANGED <<server, now, users, inflight, issued, burst, fails>>

\* auth.py lines 244-266 when update_one raises: the store has applied the
\* update (the answer was lost) or has not; login_user answers 500
login_user_update_error(call, applied) ==
    /\ BagIn(call, inflight)
    /\ call.op = "login"
    /\ inflight' = inflight (-) SetToBag({call})
    /\ IF applied
       THEN /\ users' = [users EXCEPT ![call.id] =
                           IF call.ret = "fail" THEN failed_update(@, call.lock)
                           ELSE success_update(@, call.at)]
            /\ fails' = [fails EXCEPT ![call.id] = IF call.ret = "fail" THEN @ + 1 ELSE 0]
       ELSE UNCHANGED <<users, fails>>
    /\ resp' = HTTPException("login", call.user.username, call.password, None,
                             HTTP_500_INTERNAL_SERVER_ERROR, "Login failed")
    /\ UNCHANGED <<server, now, attempts, allowed, issued, burst>>

\* auth.py lines 290-299 when find_one raises after the token verified;
\* refresh_token (server_with_auth.py lines 251-256) answers 500
refresh_access_token_find_error(token) ==
    /\ verify_token(token, "refresh", now) # None
    /\ resp' = HTTPException("refresh", token.claims.sub, "", Some(token),
                             HTTP_500_INTERNAL_SERVER_ERROR, "Token refresh failed")
    /\ UNCHANGED <<server, now, users, inflight, attempts, allowed, issued, burst, fails>>

\* auth.py lines 311-322 when find_one raises after the token verified: the
\* dependency (server_with_auth.py lines 160-167) has no handler, so the
\* server's error middleware answers 500
get_current_user_find_error(token) ==
    /\ verify_token(token, "access", now) # None
    /\ resp' = HTTPException("me", token.claims.sub, "", Some(token),
                             HTTP_500_INTERNAL_SERVER_ERROR, "Internal Server Error")
    /\ UNCHANGED <<server, now, users, inflight, attempts, allowed, issued, burst, fails>>

\* requests that meet a failing store
LoginFindError(username, password) ==
    /\ inflight = EmptyBag
    /\ TotalAllowed < MaxAllowed
    /\ login_user_find_error(username, password)

LoginUpdateError(call, applied) == login_user_update_error(call, applied)

RefreshFindError(token) == refresh_access_token_find_error(token)

MeFindError(token) == get_current_user_find_error(token)

\* logins, refreshes and current-user resolutions while the store fails now
\* and then
NextOutage ==
    \/ \E pw \in Passwords : Login("alice", pw)
    \/ \E call \in BagToSet(inflight) : LoginDone(call)
    \/ \E token \in issued : Refresh(token)
    \/ \E token \in issued : Me(token)
    \/ \E pw \in Passwords : LoginFindError("alice", pw)
    \/ \E call \in BagToSet(inflight), applied \in BOOLEAN : LoginUpdateError(call, applied)
    \/ \E token \in issued : RefreshFindError(token)
    \/ \E token \in issued : MeFindError(token)
    \/ TickOnce

SpecOutage == InitAuth /\ [][NextOutage]_vars

(********************** the functions called alone ************************)
\* the outcome of a call of a function that touches no state
Result(op, args, ret) == [op |-> op, args |-> args, ret |-> ret]

\* role strings: the three of the table and others
RoleStrings == Roles \cup {"root", "", "ADMIN"}

\* UserRole.get_permissions(role)
GetPermissions(role) ==
    /\ resp' = Result("get_permissions", <<role>>, get_permissions(role))
    /\ UNCHANGED <<server, now, users, inflight, attempts, allowed, issued, burst, fails>>

\* passwords: valid ones (one of them of the minimum length) and variants
\* that miss one condition each
PolicyPasswords ==
    {"Right123!", "TestPass123!", "Abcdef1!", "Sh0rt!a", "weak", "NoNumbers!",
     "nonumbers123!", "NOLOWER123!", "NoSpecialChars123", "Slash123/a"}

\* PasswordUtils.validate_password_strength(password)
ValidatePasswordStrength(password) ==
    /\ resp' = Result("validate_password_strength", <<password>>,
                      validate_password_strength(password))
    /\ UNCHANGED <<server, now, users, inflight, attempts, allowed, issued, burst, fails>>

\* the passwords hashed and verified
HashPasswords == PolicyPasswords \cup {WRONG, LONG_X, LONG_Y}

\* digests that are not bcrypt digests
MalformedDigests == {<< >>, <<"bcrypt">>, <<"plain", "Right123!">>}

\* verify_password(plain_password, get_password_hash(password)), as
\* test_password_utils does
VerifyHashed(plain_password, password) ==
    /\ resp' = Result("verify_password", <<plain_password, password>>,
                      verify_password(plain_password, get_password_hash(password)))
    /\ UNCHANGED <<server, now, users, inflight, attempts, allowed, issued, burst, fails>>

\* verify_password(plain_password, digest) on a malformed digest
VerifyMalformed(plain_password, digest) ==
    /\ resp' = Result("verify_malformed", <<plain_password, digest>>,
                      verify_password(plain_password, digest))
    /\ UNCHANGED <<server, now, users, inflight, attempts, allowed, issued, burst, fails>>

(******************* require_permission, require_role *********************)
\* the user dict get_current_user returns for a stored user of that role:
\* the document with the TokenData added under "token_data"
resolved_user(role) ==
    [username |-> "alice", role |-> role,
     token_data |-> [username |-> "alice", user_id |-> 1, role |-> role,
                     permissions |-> get_permissions(role)]]

\* lines 351-355: the first positional argument that is a dict holding the
\* key "token_data"; keyword arguments are not looked at
current_user_of(args) ==
    LET found == {i \in 1..Len(args) : "token_data" \in DOMAIN args[i]}
    IN  IF found = {} THEN None
        ELSE Some(args[CHOOSE i \in found : \A j \in found : i <= j])

\* mutant: any resolved user passes the permission guard
require_permission_any_user(permission, args, kwargs) ==
    LET current_user == current_user_of(args)
    IN  IF current_user = None
        THEN [ret |-> "raise", code |-> HTTP_401_UNAUTHORIZED,
              detail |-> "Authentication required"]
        ELSE [ret |-> "body", code |-> 0, detail |-> ""]

\* lines 346-372: the wrapper of require_permission(permission) called with
\* positional arguments args and keyword arguments kwargs
require_permission(permission, args, kwargs) ==
    LET current_user == current_user_of(args)
    IN  IF current_user = None
        THEN [ret |-> "raise", code |-> HTTP_401_UNAUTHORIZED,
              detail |-> "Authentication required"]
        ELSE IF permission \notin current_user[1].token_data.permissions
        THEN [ret |-> "raise", code |-> HTTP_403_FORBIDDEN,
              detail |-> "Permission '" \o permission \o "' required"]
        ELSE [ret |-> "body", code |-> 0, detail |-> ""]

\* lines 374-399: the wrapper of require_role(role)
require_role(role, args, kwargs) ==
    LET current_user == current_user_of(args)
    IN  IF current_user = None
        THEN [ret |-> "raise", code |-> HTTP_401_UNAUTHORIZED,
              detail |-> "Authentication required"]
        ELSE IF current_user[1].role # role
        THEN [ret |-> "raise", code |-> HTTP_403_FORBIDDEN,
              detail |-> "Role '" \o role \o "' required"]
        ELSE [ret |-> "body", code |-> 0, detail |-> ""]

\* the ways a guarded handler is called: with the resolved user as a
\* positional argument, as the keyword argument current_user (the way
\* FastAPI passes a dependency), with a stored document that was never
\* resolved, or with no user at all
Passings == {"positional", "keyword", "document", "absent"}

positional(passing, role) ==
    CASE passing = "positional" -> <<[strategy_id |-> "s1"], resolved_user(role)>>
      [] passing = "document" -> <<[username |-> "alice", role |-> role]>>
      [] OTHER -> << >>

keywords(passing, role) ==
    IF passing = "keyword" THEN [current_user |-> resolved_user(role)] ELSE << >>

GuardedPermissions == {"manage:users", "execute:trades", "read:own"}

\* a handler behind @require_permission(permission) is called
RequirePermission(permission, passing, role) ==
    /\ resp' = Result("require_permission", <<permission, passing, role>>,
                      require_permission(permission, positional(passing, role),
                                         keywords(passing, role)))
    /\ UNCHANGED <<server, now, users, inflight, attempts, allowed, issued, burst, fails>>

\* a handler behind @require_role(role) is called by a user of role has
RequireRole(role, passing, has) ==
    /\ resp' = Result("require_role", <<role, passing, has>>,
                      require_role(role, positional(passing, has), keywords(passing, has)))
    /\ UNCHANGED <<server, now, users, inflight, attempts, allowed, issued, burst, fails>>

\* the functions of auth.py that touch no state, called with inputs of all kinds
NextUtils ==
    \/ \E role \in RoleStrings : GetPermissions(role)
    \/ \E password \in PolicyPasswords : ValidatePasswordStrength(password)
    \/ \E p2 \in HashPasswords, p \in HashPasswords : VerifyHashed(p2, p)
    \/ \E p \in HashPasswords, digest \in MalformedDigests : VerifyMalformed(p, digest)
    \/ \E permission \in GuardedPermissions, passing \in Passings, role \in RoleStrings :
          RequirePermission(permission, passing, role)
    \/ \E role \in Roles, passing \in Passings, has \in RoleStrings :
          RequireRole(role, passing, has)

SpecUtils == InitAuth /\ [][NextUtils]_vars

(************************ AuthManager.create_user *************************)
\* find_one({"$or": [{"username": ...}, {"email": ...}]}) is not None
existing_user(username, email) ==
    \E i \in 1..Len(users) : users[i].username = username \/ users[i].email = email

\* what register_user answers: it lets an HTTPException of create_user through
answer(username, password, ret, code, detail) ==
    [Outcome("register", username, password, None, ret, code, None, None)
        EXCEPT !.detail = detail]

\* mutant: the existence check looks at the username only
create_user_read_username_only(username, email, password, role) ==
    IF \/ ~validate_password_strength(password)
       \/ \E i \in 1..Len(users) : users[i].username = username
       \/ role \notin {ADMIN, TRADER, VIEWER}
    THEN /\ resp' = answer(username, password, "raise", HTTP_400_BAD_REQUEST,
                           IF ~validate_password_strength(password)
                           THEN "Password does not meet security requirements"
                           ELSE IF \E i \in 1..Len(users) : users[i].username = username
                           THEN "Username or email already registered"
                           ELSE "Invalid role specified")
         /\ UNCHANGED <<server, now, users, inflight, issued, fails>>
    ELSE /\ inflight' = inflight (+) SetToBag({
                [op |-> "register", ret |-> "insert", password |-> password,
                 doc |-> user_doc(username, email, password, role)]})
         /\ UNCHANGED <<server, now, users, issued, fails, resp>>

\* lines 173-213: the strength test, find_one, the role test and the document,
\* up to the await of insert_one
create_user_read(username, email, password, role) ==
    IF \/ ~validate_password_strength(password)
       \/ existing_user(username, email)
       \/ role \notin {ADMIN, TRADER, VIEWER}
    THEN /\ resp' = answer(username, password, "raise", HTTP_400_BAD_REQUEST,
                           IF ~validate_password_strength(password)
                           THEN "Password does not meet security requirements"
                           ELSE IF existing_user(username, email)
                           THEN "Username or email already registered"
                           ELSE "Invalid role specified")
         /\ UNCHANGED <<server, now, users, inflight, issued, fails>>
    ELSE /\ inflight' = inflight (+) SetToBag({
                [op |-> "register", ret |-> "insert", password |-> password,
                 doc |-> user_doc(username, email, password, role)]})
         /\ UNCHANGED <<server, now, users, issued, fails, resp>>

\* mutant: a store without the two unique indexes
duplicate_key_no_index(doc) == FALSE

\* the unique indexes on username and on email (database.py lines 197-198)
\* refuse the document: DuplicateKeyError
duplicate_key(doc) ==
    \E i \in 1..Len(users) :
        users[i].username = doc.username \/ users[i].email = doc.email

\* lines 215-218: insert_one at the store, then the UserResponse; a
\* DuplicateKeyError leaves create_user as it is and register_user turns it
\* into 500 (server_with_auth.py lines 191-196)
create_user_write(call) ==
    /\ BagIn(call, inflight)
    /\ inflight' = inflight (-) SetToBag({call})
    /\ IF duplicate_key(call.doc)
       THEN /\ UNCHANGED <<users, fails>>
            /\ resp' = answer(call.doc.username, call.password, "raise",
                              HTTP_500_INTERNAL_SERVER_ERROR, "Registration failed")
       ELSE /\ users' = Append(users, call.doc)
            /\ fails' = Append(fails, 0)
            /\ resp' = answer(call.doc.username, call.password, "UserResponse",
                              HTTP_201_CREATED, "")
    /\ UNCHANGED <<server, now, issued>>

\* server_with_auth.py lines 172-189: the auth manager must be set, then the
\* registration budget, then create_user up to its insert_one
register_user(username, email, password, role) ==
    IF ~auth_manager
    THEN not_available(answer(username, password, "raise", HTTP_503_SERVICE_UNAVAILABLE,
                              UNAVAILABLE))
    ELSE /\ attempts' = attempts_after(REGISTER_KEY, REGISTER_MAX_ATTEMPTS,
                                       REGISTER_WINDOW_MINUTES, now)
         /\ allowed' = allowed_after(REGISTER_KEY, REGISTER_MAX_ATTEMPTS,
                                     REGISTER_WINDOW_MINUTES, now)
         /\ IF ~is_allowed(REGISTER_KEY, REGISTER_MAX_ATTEMPTS, REGISTER_WINDOW_MINUTES, now)
            THEN /\ resp' = answer(username, password, "raise", HTTP_429_TOO_MANY_REQUESTS,
                                   "Too many registration attempts. Please try again later.")
                 /\ UNCHANGED <<server, now, users, inflight, issued, fails>>
            ELSE create_user_read(username, email, password, role)
         /\ UNCHANGED burst

\* the inputs of the registrations
RegUsernames == {"alice", "bob"}
Emails == {"alice@example.com", "bob@example.com"}
RegPasswords == {RIGHT, "NoSpecialChars123"}
RegRoles == {TRADER, "root"}

\* a POST /auth/register request
Register(username, email, password, role) ==
    /\ \/ BagCardinality(inflight) < MaxInflight
       \/ ~is_allowed(REGISTER_KEY, REGISTER_MAX_ATTEMPTS, REGISTER_WINDOW_MINUTES, now)
    /\ register_user(username, email, password, role)

CreateDone(call) ==
    /\ call.op = "register"
    /\ create_user_write(call)
    /\ UNCHANGED <<attempts, allowed, burst>>

\* an empty user store
InitRegister ==
    /\ startup_done
    /\ now = 0
    /\ users = << >>
    /\ inflight = EmptyBag
    /\ attempts = << >>
    /\ allowed = << >>
    /\ issued = {}
    /\ burst = 0
    /\ fails = << >>
    /\ resp = NoResp

\* registrations by up to MaxInflight concurrent requests
NextRegister ==
    \/ \E u \in RegUsernames, e \in Emails, pw \in RegPasswords, r \in RegRoles :
          Register(u, e, pw, r)
    \/ \E call \in BagToSet(inflight) : CreateDone(call)

SpecRegister == InitRegister /\ [][NextRegister]_vars

\* from an empty store: registrations, then logins, current-user
\* resolutions and refreshes with the tokens handed out
NextJourney ==
    \/ \E pw \in RegPasswords : Register("alice", "alice@example.com", pw, TRADER)
    \/ \E call \in BagToSet(inflight) : CreateDone(call)
    \/ \E pw \in Passwords : Login("alice", pw)
    \/ \E call \in BagToSet(inflight) : LoginDone(call)
    \/ \E token \in issued : Me(token)
    \/ \E token \in issued : Refresh(token)
    \/ \E id \in 1..Len(users), b \in BOOLEAN : SetActive(id, b)
    \/ TickOnce

SpecJourney == InitRegister /\ [][NextJourney]_vars

\* a login request, one at a time, while the history has room
LoginBudget(username, password) ==
    /\ inflight = EmptyBag
    /\ Room(MaxBudget, login_key(username), LOGIN_MAX_ATTEMPTS, LOGIN_WINDOW_MINUTES)
    /\ login_user(username, password)

\* a register request, one at a time, while the history has room
RegisterBudget(username, email, password, role) ==
    /\ inflight = EmptyBag
    /\ Room(MaxBudget, REGISTER_KEY, REGISTER_MAX_ATTEMPTS, REGISTER_WINDOW_MINUTES)
    /\ register_user(username, email, password, role)

\* logins of the registered user and registrations of another one, until
\* both budgets are used up, with the login window passing once
NextBudget ==
    \/ \E pw \in Passwords : LoginBudget("alice", pw)
    \/ \E call \in BagToSet(inflight) : LoginDone(call)
    \/ \E pw \in RegPasswords, r \in RegRoles :
          RegisterBudget("bob", "bob@example.com", pw, r)
    \/ \E call \in BagToSet(inflight) : CreateDone(call)
    \/ TickOnce

SpecBudget == InitAuth /\ [][NextBudget]_vars

\* the state startup_event leaves: init_database has succeeded and the auth
\* manager is set, or it has raised and the auth manager stays unset; the
\* store holds a user of an earlier run, whose clients still hold its tokens
InitStartup ==
    LET alice == user_doc("alice", "alice@example.com", RIGHT, TRADER)
    IN  /\ auth_manager \in BOOLEAN
        /\ strategies = << >>
        /\ trading_is_active = FALSE
        /\ background_tasks = << >>
        /\ now = 0
        /\ users = <<[alice EXCEPT !.last_login = Some(0)]>>
        /\ inflight = EmptyBag
        /\ attempts = << >>
        /\ allowed = << >>
        /\ issued = {create_tokens(1, alice, 0)[1], create_tokens(1, alice, 0)[2]}
        /\ burst = 0
        /\ fails = <<0>>
        /\ resp = NoResp

\* the requests that need the auth manager, after either outcome of startup
NextStartup ==
    \/ \E pw \in Passwords : Login("alice", pw)
    \/ \E call \in BagToSet(inflight) : LoginDone(call)
    \/ RegisterBudget("bob", "bob@example.com", RIGHT, TRADER)
    \/ \E call \in BagToSet(inflight) : CreateDone(call)
    \/ \E token \in issued : Refresh(token)
    \/ \E token \in issued : Me(token)
    \/ TickOnce

SpecStartup == InitStartup /\ [][NextStartup]_vars

(************************* strategy endpoints *****************************)
\* what the strategy requests leave alone
beside_strategies ==
    <<auth_manager, trading_is_active, background_tasks, now, users, attempts, allowed,
      issued, burst, fails>>

MANAGE_STRATEGIES == "manage:strategies"

\* the answer of a strategy endpoint to the bearer of token
strategy_reply(op, token, ret, code, detail) ==
    [Outcome(op, token.claims.sub, "", Some(token), ret, code, None, None)
        EXCEPT !.detail = detail]

\* server_with_auth.py lines 160-167 with auth.py lines 309-344: the
\* dependency of a strategy endpoint resolves the current user (find_one on
\* db.users) and attaches the TokenData made from the stored role; the
\* endpoint's body runs after it
depends_get_current_user(op, token, strategy_id, data) ==
    LET payload == verify_token(token, "access", now)
        id == IF payload = None THEN 0 ELSE find_one(payload[1].sub)
    IN  IF ~auth_manager
        THEN not_available(strategy_reply(op, token, "raise", HTTP_503_SERVICE_UNAVAILABLE,
                                          UNAVAILABLE))
        ELSE IF payload = None \/ id = 0 \/ ~users[id].is_active
        THEN /\ resp' = IF payload = None
                        THEN strategy_reply(op, token, "raise", HTTP_401_UNAUTHORIZED,
                                            "Invalid authentication credentials")
                        ELSE IF id = 0
                        THEN strategy_reply(op, token, "raise", HTTP_401_UNAUTHORIZED,
                                            "User not found")
                        ELSE strategy_reply(op, token, "raise", HTTP_403_FORBIDDEN,
                                            DEACTIVATED)
             /\ UNCHANGED <<strategies, inflight>>
             /\ UNCHANGED beside_strategies
        ELSE /\ inflight' = inflight (+) SetToBag({
                    [op |-> op, token |-> token, user_id |-> id, role |-> users[id].role,
                     permissions |-> get_permissions(users[id].role),
                     strategy_id |-> strategy_id, data |-> data, verified |-> FALSE]})
             /\ UNCHANGED <<strategies, resp>>
             /\ UNCHANGED beside_strategies

\* lines 328-332, 403-408, 459-464: the permission check of the three endpoints
forbidden(call) ==
    /\ MANAGE_STRATEGIES \notin call.permissions
    /\ resp' = strategy_reply(call.op, call.token, "raise", HTTP_403_FORBIDDEN,
                              "Permission 'manage:strategies' required")
    /\ inflight' = inflight (-) SetToBag({call})
    /\ UNCHANGED strategies
    /\ UNCHANGED beside_strategies

\* lines 328-352: create_strategy after the dependency: the permission
\* check, then insert_one of a document owned by the current user
create_strategy(call) ==
    /\ BagIn(call, inflight) /\ call.op = "create_strategy"
    /\ \/ forbidden(call)
       \/ /\ MANAGE_STRATEGIES \in call.permissions
          /\ strategies' = Append(strategies,
                                  Some(update([user_id |-> call.user_id, is_active |-> FALSE],
                                              call.data)))
          /\ resp' = strategy_reply(call.op, call.token, "id", HTTP_201_CREATED,
                                    "Strategy created successfully")
          /\ inflight' = inflight (-) SetToBag({call})
          /\ UNCHANGED beside_strategies

\* database.py lines 309-311: find_one({"_id": ObjectId(strategy_id)})
get_strategy_by_id(strategy_id) ==
    IF strategy_id \in 1..Len(strategies) THEN strategies[strategy_id] ELSE None

\* mutant: an admin passes the ownership check
verify_ownership_admin_passes(call) ==
    LET strategy == get_strategy_by_id(call.strategy_id)
        verb == IF call.op = "update_strategy" THEN "update" ELSE "delete"
    IN  /\ BagIn(call, inflight) /\ call.op \in {"update_strategy", "delete_strategy"}
        /\ ~call.verified
        /\ \/ forbidden(call)
           \/ /\ MANAGE_STRATEGIES \in call.permissions
              /\ IF strategy = None
                 THEN /\ resp' = strategy_reply(call.op, call.token, "raise",
                                                HTTP_404_NOT_FOUND, "Strategy not found")
                      /\ inflight' = inflight (-) SetToBag({call})
                 ELSE IF strategy[1].user_id # call.user_id /\ call.role # ADMIN
                 THEN /\ resp' = strategy_reply(call.op, call.token, "raise",
                                                HTTP_403_FORBIDDEN,
                                                "Not authorized to " \o verb \o " this strategy")
                      /\ inflight' = inflight (-) SetToBag({call})
                 ELSE /\ resp' = resp
                      /\ inflight' = (inflight (-) SetToBag({call}))
                                        (+) SetToBag({[call EXCEPT !.verified = TRUE]})
              /\ UNCHANGED strategies
              /\ UNCHANGED beside_strategies

\* lines 402-423 and 458-479: update_strategy and delete_strategy after the
\* dependency: the permission check, get_strategy_by_id, then the comparison
\* of the strategy's user_id with the current user's _id
verify_ownership(call) ==
    LET strategy == get_strategy_by_id(call.strategy_id)
        verb == IF call.op = "update_strategy" THEN "update" ELSE "delete"
    IN  /\ BagIn(call, inflight) /\ call.op \in {"update_strategy", "delete_strategy"}
        /\ ~call.verified
        /\ \/ forbidden(call)
           \/ /\ MANAGE_STRATEGIES \in call.permissions
              /\ IF strategy = None
                 THEN /\ resp' = strategy_reply(call.op, call.token, "raise",
                                                HTTP_404_NOT_FOUND, "Strategy not found")
                      /\ inflight' = inflight (-) SetToBag({call})
                 ELSE IF strategy[1].user_id # call.user_id
                 THEN /\ resp' = strategy_reply(call.op, call.token, "raise",
                                                HTTP_403_FORBIDDEN,
                                                "Not authorized to " \o verb \o " this strategy")
                      /\ inflight' = inflight (-) SetToBag({call})
                 ELSE /\ resp' = resp
                      /\ inflight' = (inflight (-) SetToBag({call}))
                                        (+) SetToBag({[call EXCEPT !.verified = TRUE]})
              /\ UNCHANGED strategies
              /\ UNCHANGED beside_strategies

\* lines 425-436 with database.py lines 313-320: update_one with $set of the
\* fields given (and of updated_at, which makes every update of a stored
\* document a modification); modified_count is 0 when the document is gone
update_strategy(call) ==
    /\ BagIn(call, inflight) /\ call.op = "update_strategy" /\ call.verified
    /\ inflight' = inflight (-) SetToBag({call})
    /\ IF get_strategy_by_id(call.strategy_id) # None
       THEN /\ strategies' = [strategies EXCEPT ![call.strategy_id] =
                                 Some(update(@[1], call.data))]
            /\ resp' = strategy_reply(call.op, call.token, "message", HTTP_200_OK,
                                      "Strategy updated successfully")
       ELSE /\ strategies' = strategies
            /\ resp' = strategy_reply(call.op, call.token, "raise",
                                      HTTP_500_INTERNAL_SERVER_ERROR,
                                      "Failed to update strategy")
    /\ UNCHANGED beside_strategies

\* lines 481-491 with database.py lines 322-325: delete_one; deleted_count is
\* 0 when the document is gone. An _id is never given to another document
delete_strategy(call) ==
    /\ BagIn(call, inflight) /\ call.op = "delete_strategy" /\ call.verified
    /\ inflight' = inflight (-) SetToBag({call})
    /\ IF get_strategy_by_id(call.strategy_id) # None
       THEN /\ strategies' = [strategies EXCEPT ![call.strategy_id] = None]
            /\ resp' = strategy_reply(call.op, call.token, "message", HTTP_200_OK,
                                      "Strategy deleted successfully")
       ELSE /\ strategies' = strategies
            /\ resp' = strategy_reply(call.op, call.token, "raise",
                                      HTTP_500_INTERNAL_SERVER_ERROR,
                                      "Failed to delete strategy")
    /\ UNCHANGED beside_strategies

\* the create_strategy calls in flight
creating ==
    LET calls == {call \in BagToSet(inflight) : call.op = "create_strategy"}
    IN  IF calls = {} THEN 0 ELSE BagCardinality(inflight)

\* a POST /strategies request
CreateStrategy(token, name) ==
    /\ BagCardinality(inflight) < MaxInflight
    /\ Len(strategies) + creating < MaxStrategies
    /\ depends_get_current_user("create_strategy", token, 0, [name |-> name])

\* a PUT /strategies/{strategy_id} request
UpdateStrategy(token, strategy_id, data) ==
    /\ BagCardinality(inflight) < MaxInflight
    /\ depends_get_current_user("update_strategy", token, strategy_id, data)

\* a DELETE /strategies/{strategy_id} request
DeleteStrategy(token, strategy_id) ==
    /\ BagCardinality(inflight) < MaxInflight
    /\ depends_get_current_user("delete_strategy", token, strategy_id, << >>)

\* a trader, a viewer and an admin, each holding the access token of a login
InitStrategy ==
    LET alice == user_doc("alice", "alice@example.com", RIGHT, TRADER)
        bob == user_doc("bob", "bob@example.com", RIGHT, VIEWER)
        admin == user_doc("admin", "admin@hypertrader.com", RIGHT, ADMIN)
    IN  /\ startup_done
        /\ now = 0
        /\ users = <<alice, bob, admin>>
        /\ inflight = EmptyBag
        /\ attempts = << >>
        /\ allowed = << >>
        /\ issued = {create_tokens(1, alice, 0)[1], create_tokens(2, bob, 0)[1],
                     create_tokens(3, admin, 0)[1]}
        /\ burst = 0
        /\ fails = <<0, 0, 0>>
        /\ resp = NoResp

\* the fields a PUT request sets
StrategyUpdates == {[name |-> "renamed", is_active |-> TRUE]}

\* concurrent strategy requests of the three users
NextStrategy ==
    \/ \E token \in issued : CreateStrategy(token, "momentum")
    \/ \E token \in issued, id \in 1..MaxStrategies, data \in StrategyUpdates :
          UpdateStrategy(token, id, data)
    \/ \E token \in issued, id \in 1..MaxStrategies : DeleteStrategy(token, id)
    \/ \E call \in BagToSet(inflight) : create_strategy(call)
    \/ \E call \in BagToSet(inflight) : verify_ownership(call)
    \/ \E call \in BagToSet(inflight) : update_strategy(call)
    \/ \E call \in BagToSet(inflight) : delete_strategy(call)

SpecStrategy == InitStrategy /\ [][NextStrategy]_vars

(********************** server.py: the trading engine **********************)
\* what the trading engine leaves alone
beside_trading ==
    <<auth_manager, strategies, now, users, inflight, attempts, allowed, issued, burst,
      fails>>

\* the application has not been shut down: requests are served
serving == resp.op # "shutdown_db_client"

\* lines 120-130: POST /trading/start
start_trading ==
    /\ serving
    /\ trading_is_active \/ Len(background_tasks) < MaxTasks
    /\ IF trading_is_active
       THEN /\ resp' = Result("start_trading", << >>, [message |-> "Trading is already active"])
            /\ UNCHANGED <<trading_is_active, background_tasks>>
       ELSE /\ trading_is_active' = TRUE
            /\ background_tasks' = Append(background_tasks, "added")
            /\ resp' = Result("start_trading", << >>, [message |-> "Trading started successfully"])
    /\ UNCHANGED beside_trading

\* lines 132-139: POST /trading/stop
stop_trading ==
    /\ serving
    /\ IF ~trading_is_active
       THEN /\ resp' = Result("stop_trading", << >>, [message |-> "Trading is already stopped"])
            /\ UNCHANGED trading_is_active
       ELSE /\ trading_is_active' = FALSE
            /\ resp' = Result("stop_trading", << >>, [message |-> "Trading stopped successfully"])
    /\ UNCHANGED background_tasks
    /\ UNCHANGED beside_trading

\* lines 141-143: GET /trading/status
get_trading_status ==
    /\ serving
    /\ resp' = Result("get_trading_status", << >>, [is_active |-> trading_is_active])
    /\ UNCHANGED <<trading_is_active, background_tasks>>
    /\ UNCHANGED beside_trading

\* mutant: the loop does not look at the flag
trading_background_task_forever(i) ==
    /\ i \in 1..Len(background_tasks)
    /\ background_tasks[i] \in {"added", "sleeping"}
    /\ background_tasks' = [background_tasks EXCEPT ![i] = "sleeping"]
    /\ UNCHANGED <<trading_is_active, resp>>
    /\ UNCHANGED beside_trading

\* lines 267-283: one step of task i: it begins, or asyncio.sleep(1) has
\* returned; either way the loop condition is tested next, and the task
\* sleeps again or returns
trading_background_task(i) ==
    /\ i \in 1..Len(background_tasks)
    /\ background_tasks[i] \in {"added", "sleeping"}
    /\ background_tasks' = [background_tasks EXCEPT ![i] =
                               IF trading_is_active THEN "sleeping" ELSE "returned"]
    /\ UNCHANGED <<trading_is_active, resp>>
    /\ UNCHANGED beside_trading

\* lines 304-308: the shutdown handler; no request is served after it
shutdown_db_client ==
    /\ serving
    /\ trading_is_active' = FALSE
    /\ resp' = Result("shutdown_db_client", << >>, [message |-> ""])
    /\ UNCHANGED background_tasks
    /\ UNCHANGED beside_trading

\* server.py lines 96-99: the engine as the module leaves it when imported
InitTrading ==
    /\ trading_is_active = FALSE
    /\ background_tasks = << >>
    /\ auth_manager = FALSE
    /\ strategies = << >>
    /\ now = 0
    /\ users = << >>
    /\ inflight = EmptyBag
    /\ attempts = << >>
    /\ allowed = << >>
    /\ issued = {}
    /\ burst = 0
    /\ fails = << >>
    /\ resp = Result("", << >>, [message |-> ""])

\* requests at arbitrary times while the tasks take their steps
NextTrading ==
    \/ start_trading
    \/ stop_trading
    \/ get_trading_status
    \/ \E i \in 1..MaxTasks : trading_background_task(i)
    \/ shutdown_db_client

SpecTrading == InitTrading /\ [][NextTrading]_vars

\* the event loop runs every task that can run: a task that has been added
\* begins, and asyncio.sleep(1) returns
SpecTradingFair ==
    SpecTrading /\ \A i \in 1..MaxTasks : WF_vars(trading_background_task(i))

(*************************** the rate limiter alone ***********************)
\* rate_limiter.is_allowed(key, max_attempts, window_minutes), called at the
\* clock's time; the caller sees the value returned
allow(key, max_attempts, window_minutes) ==
    /\ attempts' = attempts_after(key, max_attempts, window_minutes, now)
    /\ allowed' = allowed_after(key, max_attempts, window_minutes, now)
    /\ resp' = Outcome("is_allowed", key, "", None,
                       IF is_allowed(key, max_attempts, window_minutes, now)
                       THEN "True" ELSE "False", 0, None, None)
    /\ UNCHANGED <<server, now, users, inflight, issued, burst, fails>>

\* the keys the two endpoints use, for two usernames
LoginKeys == {login_key("alice"), login_key("bob")}

\* the budget check of a login request (line 208)
AllowLogin(key) ==
    /\ Room(MaxHistory, key, LOGIN_MAX_ATTEMPTS, LOGIN_WINDOW_MINUTES)
    /\ allow(key, LOGIN_MAX_ATTEMPTS, LOGIN_WINDOW_MINUTES)

\* the budget check of a register request (line 180)
AllowRegister ==
    /\ Room(MaxHistory, REGISTER_KEY, REGISTER_MAX_ATTEMPTS, REGISTER_WINDOW_MINUTES)
    /\ allow(REGISTER_KEY, REGISTER_MAX_ATTEMPTS, REGISTER_WINDOW_MINUTES)

\* the instants next to the start and next to the end of the login window
WindowInstants ==
    {p * minutes(LOGIN_WINDOW_MINUTES) + o : p \in 0..1, o \in {0 - 1, 0, 1}} \cap Nat

TickWindow == \E t \in WindowInstants : Advance(t)

\* budget checks on several keys at arbitrary instants
NextLimit ==
    \/ \E key \in LoginKeys : AllowLogin(key)
    \/ AllowRegister
    \/ TickWindow

SpecLimit == InitAuth /\ [][NextLimit]_vars

\* a POST /auth/login request made while other requests are in flight
LoginRace(username, password) ==
    /\ \/ BagCardinality(inflight) < MaxInflight
       \/ ~is_allowed(login_key(username), LOGIN_MAX_ATTEMPTS, LOGIN_WINDOW_MINUTES, now)
    /\ Room(MaxHistory, login_key(username), LOGIN_MAX_ATTEMPTS, LOGIN_WINDOW_MINUTES)
    /\ login_user(username, password)

\* login requests on one username by up to MaxInflight concurrent requests
NextLimitRace ==
    \/ \E pw \in Passwords : LoginRace("alice", pw)
    \/ \E call \in BagToSet(inflight) : LoginDone(call)
    \/ TickOnce

SpecLimitRace == InitAuth /\ [][NextLimitRace]_vars

(******************************* claims ***********************************)
\* C1: with authenticate calls made one at a time on a freshly registered
\* active user, each of the first four consecutive wrong-password attempts
\* leaves the user without lockout-expiry, and the fifth sets the
\* lockout-expiry to 15 minutes after that attempt with the counter at 5.
C1_FifthFailureLocks ==
    [][\A call \in BagToSet(inflight) :
          (AuthenticateDone(call) /\ call.ret = "fail") =>
              LET n == fails[call.id]
                  after == users'[call.id]
              IN  /\ n < 4 => after.locked_until = None /\ after.login_attempts = n + 1
                  /\ n = 4 => /\ after.locked_until = Some(call.at + minutes(15))
                              /\ after.login_attempts = 5]_vars

\* the fifth consecutive wrong password has just been answered
C1_Witness ==
    /\ fails[1] = 5
    /\ users[1].login_attempts = 5
    /\ users[1].locked_until # None
    /\ resp.op = "authenticate" /\ resp.password = WRONG /\ resp.ret = "None"

C4_BurstEndsLockedAtFive ==
    (burst = 0 /\ inflight = EmptyBag) =>
        /\ users[1].login_attempts = 5
        /\ users[1].locked_until # None
        /\ users[1].locked_until[1] > now

\* C5: no increment is lost: the stored counter equals the number of
\* failed-password updates applied since the last successful login, in every
\* interleaving of concurrent calls.
C5_NoLostIncrement ==
    \A id \in 1..Len(users) : users[id].login_attempts = fails[id]

\* calls that raced (the lock was cleared by a stale call) and still all count
C5_Witness ==
    /\ users[1].login_attempts >= 6
    /\ users[1].locked_until = None
    /\ fails[1] = users[1].login_attempts

C7_KindSeparation ==
    /\ [](\A token \in issued, kind \in {"access", "refresh"} :
            LET made == IF "role" \in DOMAIN token.claims THEN "access" ELSE "refresh"
            IN  verify_token(token, kind, now) # None =>
                    kind = made /\ verify_token(token, kind, now) = Some(token.claims))
    /\ [][\A token \in issued :
            LET made == IF "role" \in DOMAIN token.claims THEN "access" ELSE "refresh"
            IN  /\ (made = "access" /\ Refresh(token)) =>
                      /\ resp'.ret = "raise" /\ resp'.code = 401
                      /\ issued' = issued
                /\ (made = "refresh" /\ Me(token)) =>
                      /\ resp'.ret = "raise" /\ resp'.code = 401
                      /\ resp'.token_data = None]_vars

\* an access token that verifies as an access token has been refused by refresh
C7_Witness ==
    /\ resp.op = "refresh" /\ resp.ret = "raise" /\ resp.code = 401
    /\ resp.token # None
    /\ "role" \in DOMAIN resp.token[1].claims
    /\ verify_token(resp.token[1], "access", now) = Some(resp.token[1].claims)
    /\ find_one(resp.username) # 0 /\ users[find_one(resp.username)].is_active

\* C8: a token is accepted only before its expiry: verified with its own kind
\* at any time after its expiry timestamp it is rejected, and verified one
\* second before its expiry timestamp it is accepted.
C8_RejectedAfterExpiry ==
    \A token \in issued :
        LET expiry == token.claims.exp * TicksPerSecond
        IN  /\ now > expiry => verify_token(token, token.claims.type, now) = None
            /\ now = expiry - TicksPerSecond =>
                   verify_token(token, token.claims.type, now) = Some(token.claims)

\* C9: while a user is inactive, a refresh and a current-user resolution with
\* any token handed out for that user (all of them date from before the
\* deactivation) are rejected, and no token is issued.
C9_InactiveRejected ==
    [][\A token \in issued :
          LET id == find_one(token.claims.sub)
          IN  (id # 0 /\ ~users[id].is_active) =>
                  /\ Refresh(token) =>
                        /\ resp'.ret = "raise" /\ resp'.code = 401
                        /\ resp'.tokens = None
                        /\ issued' = issued
                  /\ Me(token) =>
                        /\ resp'.ret = "raise" /\ resp'.code \in {401, 403}
                        /\ resp'.token_data = None]_vars

\* a refresh token that still verifies has been refused for an inactive user
C9_Witness ==
    /\ resp.op = "refresh" /\ resp.ret = "raise"
    /\ resp.token # None
    /\ verify_token(resp.token[1], "refresh", now) # None
    /\ find_one(resp.username) # 0
    /\ ~users[find_one(resp.username)].is_active

\* C10: a refresh is rejected with 401, issuing nothing, when the refresh
\* token is invalid (forged, or not a refresh token) or expired, or when the
\* user of its subject is missing or inactive; otherwise it returns an access
\* token whose role and permissions are those of the role stored for the
\* user at the time of the refresh.
C10_RefreshCurrentRole ==
    [][\A token \in Presented :
          Refresh(token) =>
              LET id == find_one(token.claims.sub)
                  invalid == token \notin issued \/ "role" \in DOMAIN token.claims
                  expired == now > token.claims.exp * TicksPerSecond
              IN  IF invalid \/ expired \/ id = 0 \/ ~users[id].is_active
                  THEN /\ resp'.ret = "raise" /\ resp'.code = 401
                       /\ issued' = issued
                  ELSE /\ resp'.ret = "Token"
                       /\ resp'.tokens[1].claims.type = "access"
                       /\ resp'.tokens[1].claims.sub = users[id].username
                       /\ resp'.tokens[1].claims.role = users[id].role
                       /\ resp'.tokens[1].claims.permissions = get_permissions(users[id].role)
                       /\ resp'.tokens[1] \in issued']_vars

\* C11: every successful refresh returns an access token that differs from
\* the access token the login returned, however short the time between the
\* login (here at time 0) and the refresh.
C11_RefreshedAccessDiffers ==
    LET login == create_tokens(1, user_doc("alice", "alice@example.com", RIGHT, TRADER), 0)
    IN  (resp.op = "refresh" /\ resp.ret = "Token") => resp.tokens[1] # login[1]

\* C12: resolving the current user with a valid access token of an existing
\* active user returns that user with the role and the permission set the
\* token carries, also when the stored role was changed after the token was
\* issued.
C12_EmbeddedClaimsReturned ==
    (resp.op = "me" /\ resp.ret = "user") =>
        /\ resp.token_data[1].username = resp.token[1].claims.sub
        /\ resp.token_data[1].role = resp.token[1].claims.role
        /\ resp.token_data[1].permissions = resp.token[1].claims.permissions

\* C13: on a key used with max 5 and window 15 minutes, at arbitrary times:
\* a call returns true exactly when fewer than 5 of the calls allowed before
\* it lie in the trailing window (now - 15 min, now], so the first five in a
\* window are allowed, the sixth is refused, and a call is allowed again as
\* soon as fewer than 5 remain in the window; and in every reachable state no
\* interval (t - 15 min, t] holds more than 5 allowed calls of one key.
C13_FivePerWindow ==
    /\ [](\A key \in LoginKeys \cap DOMAIN allowed :
            \A i \in 1..Len(allowed[key]) :
                Cardinality({j \in 1..Len(allowed[key]) :
                                /\ allowed[key][j] <= allowed[key][i]
                                /\ allowed[key][j] > allowed[key][i] - minutes(15)}) <= 5)
    /\ [][\A key \in LoginKeys :
            LET before == IF key \in DOMAIN allowed THEN allowed[key] ELSE << >>
                recent == Cardinality({j \in 1..Len(before) :
                                          before[j] > now - minutes(15)})
            IN  allow(key, 5, 15) =>
                    /\ resp'.username = key
                    /\ resp'.ret = IF recent < 5 THEN "True" ELSE "False"]_vars

\* a sixth call on a key has been allowed, after the window of the first passed
C13_Witness ==
    /\ resp.op = "is_allowed" /\ resp.ret = "True"
    /\ resp.username \in LoginKeys
    /\ Len(allowed[resp.username]) = 6
    /\ Len(attempts[resp.username]) < 6

\* C14: a rejected allow call records nothing: after it the key's list holds
\* exactly the attempts it held before that are newer than now - window (so
\* rejected calls, however many, never move the moment the key is allowed
\* again); an allowed call leaves those same attempts followed by one new
\* entry, the current time.
C14_RejectedNotRecorded ==
    [][\A key \in LoginKeys :
          LET old == IF key \in DOMAIN attempts THEN attempts[key] ELSE << >>
              history == IF key \in DOMAIN allowed THEN allowed[key] ELSE << >>
              newer(a) == a > now - minutes(15)
          IN  allow(key, 5, 15) =>
                  /\ resp'.ret = "False" =>
                        /\ attempts'[key] = SelectSeq(old, newer)
                        /\ allowed' = allowed
                  /\ resp'.ret = "True" =>
                        /\ attempts'[key] = Append(SelectSeq(old, newer), now)
                        /\ allowed'[key] = Append(history, now)]_vars

\* a call has been rejected on a key whose list had lost an old attempt
C14_Witness ==
    /\ resp.op = "is_allowed" /\ resp.ret = "False"
    /\ resp.username \in LoginKeys
    /\ Len(attempts[resp.username]) = 5
    /\ Len(allowed[resp.username]) = 6

\* C15: the windows are independent per key: a budget check on one key,
\* allowed or rejected, leaves the recorded attempts of every other key as
\* they were, and a key is refused only on account of its own allowed calls:
\* using up the budget of one username's login key never gets another
\* username's login key or the register key refused.
C15_KeysIndependent ==
    [][\A key \in LoginKeys \cup {REGISTER_KEY} :
          LET max_attempts == 5
              window_minutes == IF key = REGISTER_KEY THEN 60 ELSE 15
              history == IF key \in DOMAIN allowed THEN allowed[key] ELSE << >>
              own == Cardinality({j \in 1..Len(history) :
                                     history[j] > now - minutes(window_minutes)})
          IN  allow(key, max_attempts, window_minutes) =>
                  /\ \A other \in (LoginKeys \cup {REGISTER_KEY}) \ {key} :
                        /\ other \in DOMAIN attempts' <=> other \in DOMAIN attempts
                        /\ other \in DOMAIN attempts => attempts'[other] = attempts[other]
                  /\ resp'.ret = "False" => own >= max_attempts]_vars

\* the register key has been allowed while the budget of alice's login key is
\* used up
C15_Witness ==
    /\ resp.op = "is_allowed" /\ resp.ret = "True" /\ resp.username = REGISTER_KEY
    /\ login_key("alice") \in DOMAIN attempts
    /\ Cardinality({j \in 1..Len(attempts[login_key("alice")]) :
                       attempts[login_key("alice")][j] > now - minutes(15)}) = 5

\* C16: with login requests on one key in flight concurrently, in every
\* interleaving no interval (t - 15 min, t] holds more than 5 allowed calls of
\* the key, and no recorded attempt is lost: the attempts of the key's list
\* that are newer than now - 15 min are exactly the allowed calls of that
\* time.
C16_LimiterAtomic ==
    \A key \in DOMAIN allowed :
        LET newer(a) == a > now - minutes(15)
        IN  /\ \A i \in 1..Len(allowed[key]) :
                  Cardinality({j \in 1..Len(allowed[key]) :
                                  /\ allowed[key][j] <= allowed[key][i]
                                  /\ allowed[key][j] > allowed[key][i] - minutes(15)}) <= 5
            /\ key \in DOMAIN attempts
            /\ SelectSeq(attempts[key], newer) = SelectSeq(allowed[key], newer)

\* a login request has been refused by the rate limiter while two admitted
\* requests were between their read and their update
C16_Witness ==
    /\ resp.op = "login" /\ resp.code = 429
    /\ BagCardinality(inflight) >= 2
    /\ Len(allowed[login_key("alice")]) >= 5

\* C17: a registration the budget of the register endpoint admits is rejected
\* (create_user raises 400) when the password fails
\* the strength policy, when a stored user has the same username or the same
\* email, or when the role is not admin, trader or viewer; every rejected
\* registration, a rate-limited one included, leaves the user store as it
\* was; a successful one adds exactly one user, with the data given, counter
\* 0, active, no lockout-expiry and no last-login.
C17_RegisterRejectsOrAddsOne ==
    [][/\ \A u \in RegUsernames, e \in Emails, pw \in RegPasswords, r \in RegRoles :
            LET admitted == is_allowed(REGISTER_KEY, 5, 60, now)
                taken == \E i \in 1..Len(users) :
                            users[i].username = u \/ users[i].email = e
                bad_role == r \notin {"admin", "trader", "viewer"}
                \* what any such step shows, tested first
                shown == IF inflight' = inflight
                         THEN resp'.username = u /\ resp'.password = pw
                         ELSE \E call \in BagToSet(inflight') :
                                 /\ call.ret = "insert"
                                 /\ call.doc.username = u /\ call.doc.email = e
            IN  (shown /\ admitted /\ create_user_read(u, e, pw, r)) =>
                    /\ users' = users
                    /\ (~validate_password_strength(pw) \/ taken \/ bad_role) =>
                          /\ resp'.op = "register" /\ resp'.username = u
                          /\ resp'.ret = "raise" /\ resp'.code = 400
                          /\ inflight' = inflight
                    /\ ~(~validate_password_strength(pw) \/ taken \/ bad_role) =>
                          BagCardinality(inflight') = BagCardinality(inflight) + 1
       /\ \A u \in RegUsernames, e \in Emails, pw \in RegPasswords, r \in RegRoles :
            (resp'.code = 429 /\ register_user(u, e, pw, r)) =>
                users' = users /\ inflight' = inflight
       /\ \A call \in BagToSet(inflight) :
            create_user_write(call) =>
                LET taken == \E i \in 1..Len(users) :
                                \/ users[i].username = call.doc.username
                                \/ users[i].email = call.doc.email
                    n == Len(users)
                IN  IF taken
                    THEN resp'.ret # "UserResponse" /\ users' = users
                    ELSE /\ resp'.ret = "UserResponse"
                         /\ Len(users') = n + 1
                         /\ SubSeq(users', 1, n) = users
                         /\ users'[n + 1].username = call.doc.username
                         /\ users'[n + 1].email = call.doc.email
                         /\ users'[n + 1].role \in {"admin", "trader", "viewer"}
                         /\ users'[n + 1].password_hash = get_password_hash(call.password)
                         /\ users'[n + 1].login_attempts = 0
                         /\ users'[n + 1].is_active = TRUE
                         /\ users'[n + 1].locked_until = None
                         /\ users'[n + 1].last_login = None]_vars

\* a registration of bob has been rejected with alice registered before
C17_Witness ==
    /\ resp.op = "register" /\ resp.ret = "raise" /\ resp.code = 400
    /\ resp.username = "bob"
    /\ Len(users) = 1
    /\ users[1].username = "alice" /\ users[1].login_attempts = 0

\* C18: in every reachable state, whatever the interleaving of concurrent
\* registrations, no two stored users share a username and no two stored
\* users share an email.
C18_UsernameEmailUnique ==
    \A i \in 1..Len(users), j \in 1..Len(users) :
        i # j => /\ users[i].username # users[j].username
                 /\ users[i].email # users[j].email

\* two registrations passed their existence checks, and the store refused the
\* insert of the second
C18_Witness ==
    /\ resp.op = "register" /\ resp.ret = "raise" /\ resp.code = 500
    /\ \E i \in 1..Len(users) : users[i].username = resp.username

\* the claims of a token that say who the bearer is and what he may do
identity(token) == DOMAIN token.claims \ {"exp", "type"}

\* C19: a token pair issued for a user (here by a refresh, possibly after the
\* role or the username changed) has an access token whose claims are exactly
\* sub = username, user_id, role and permissions = get_permissions(role) of
\* that user, and a refresh token whose only identity claim is sub = username:
\* it carries no role, no user_id and no permissions.
C19_PairClaims ==
    [][\A token \in issued :
          (Refresh(token) /\ resp'.tokens # None) =>
              LET id == find_one(token.claims.sub)
                  access == resp'.tokens[1]
                  refresh == resp'.tokens[2]
              IN  /\ identity(access) = {"sub", "user_id", "role", "permissions"}
                  /\ access.claims.sub = users[id].username
                  /\ access.claims.user_id = id
                  /\ access.claims.role = users[id].role
                  /\ access.claims.permissions = get_permissions(users[id].role)
                  /\ access.claims.type = "access"
                  /\ identity(refresh) = {"sub"}
                  /\ refresh.claims.sub = users[id].username
                  /\ refresh.claims.type = "refresh"]_vars

\* a refresh has answered with a pair for a user whose role is no longer the
\* one of the first login
C19_Witness ==
    /\ resp.op = "refresh" /\ resp.tokens # None
    /\ resp.tokens[1].claims.role # TRADER
    /\ resp.tokens[1].claims.role = users[1].role

\* the causes for which a token presented as kind is invalid at time t
bad_signature(token) == token.key # SECRET_KEY
malformed(token) == token.segments # JWS_SEGMENTS
expired(token, t) == t > token.claims.exp * TicksPerSecond
wrong_kind(token, kind) == token.claims.type # kind

invalid(token, kind, t) ==
    bad_signature(token) \/ malformed(token) \/ expired(token, t) \/ wrong_kind(token, kind)

\* C20: a token with a bad signature, a malformed token, an expired token and
\* a token of the wrong kind all make verify_token return no claims, and all
\* make get_current_user (respectively refresh_access_token) answer with the
\* same rejection, 401, whatever the cause; nothing is issued.
C20_UniformRejection ==
    [][\A token \in Presented :
          /\ invalid(token, "access", now) =>
                /\ verify_token(token, "access", now) = None
                /\ Me(token) =>
                      resp' = HTTPException("me", token.claims.sub, "", Some(token),
                                            HTTP_401_UNAUTHORIZED,
                                            "Invalid authentication credentials")
          /\ invalid(token, "refresh", now) =>
                /\ verify_token(token, "refresh", now) = None
                /\ Refresh(token) =>
                      /\ resp' = HTTPException("refresh", token.claims.sub, "", Some(token),
                                               HTTP_401_UNAUTHORIZED,
                                               "Invalid refresh token")
                      /\ issued' = issued]_vars

\* what the caller of an endpoint sees of an answer: everything but the echo
\* of its own request
visible(r) ==
    [ret |-> r.ret, code |-> r.code, detail |-> r.detail, tokens |-> r.tokens,
     token_data |-> r.token_data]

\* C21: a login request the rate limiter admits gets, for a username that
\* does not exist, the very answer (same status, same message) a wrong
\* password gets on an existing, active, unlocked user; the request on the
\* unknown username writes nothing to the user store.
C21_UnknownLikeWrongPassword ==
    [][/\ \A u \in Usernames, pw \in Passwords :
            (/\ find_one(u) = 0
             /\ is_allowed(login_key(u), LOGIN_MAX_ATTEMPTS, LOGIN_WINDOW_MINUTES, now)
             /\ login_user(u, pw))
            => /\ resp'.op = "login" /\ resp'.username = u /\ resp'.password = pw
               /\ visible(resp') =
                      visible(HTTPException("login", "", "", None, HTTP_401_UNAUTHORIZED,
                                            "Invalid username or password"))
               /\ users' = users /\ inflight' = inflight /\ issued' = issued
       /\ \A call \in BagToSet(inflight) :
            (LoginDone(call) /\ call.ret = "fail")
            => /\ resp'.op = "login" /\ resp'.username = call.user.username
               /\ resp'.password = call.password
               /\ visible(resp') =
                      visible(HTTPException("login", "", "", None, HTTP_401_UNAUTHORIZED,
                                            "Invalid username or password"))]_vars

\* the unknown username has just been answered, after a wrong password on
\* the existing user was answered and counted
C21_Witness ==
    /\ resp.op = "login" /\ resp.username = "nobody" /\ resp.code = HTTP_401_UNAUTHORIZED
    /\ resp.detail = "Invalid username or password"
    /\ users[1].login_attempts > 0 /\ users[1].is_active /\ users[1].locked_until = None

\* the answer is the service-unavailable one and carries no tokens
unavailable(r) ==
    /\ r.ret = "raise" /\ r.code = HTTP_503_SERVICE_UNAVAILABLE
    /\ r.tokens = None /\ r.token_data = None

\* C22: when a read or a write of the user store fails during a login, a
\* refresh or a current-user resolution, the caller gets a
\* service-unavailable answer (never invalid credentials, locked, deactivated
\* or invalid token) and no token is issued.
C22_StoreFailureUnavailable ==
    [][/\ \A pw \in Passwords :
            LoginFindError("alice", pw) => unavailable(resp') /\ issued' = issued
       /\ \A call \in BagToSet(inflight), applied \in BOOLEAN :
            LoginUpdateError(call, applied) => unavailable(resp') /\ issued' = issued
       /\ \A token \in issued :
            /\ RefreshFindError(token) => unavailable(resp') /\ issued' = issued
            /\ MeFindError(token) => unavailable(resp') /\ issued' = issued]_vars

\* C23: get_permissions is total: the fixed set of the table for admin,
\* trader and viewer, and the empty set for every other role string.
C23_PermissionsTotal ==
    resp.op = "get_permissions" =>
        LET role == resp.args[1]
        IN  /\ role = "admin" =>
                  resp.ret = {"read:all", "write:all", "delete:all", "manage:users",
                              "manage:strategies", "execute:trades", "view:analytics"}
            /\ role = "trader" =>
                  resp.ret = {"read:own", "write:own", "manage:strategies",
                              "execute:trades", "view:analytics"}
            /\ role = "viewer" => resp.ret = {"read:own", "view:analytics"}
            /\ role \notin {"admin", "trader", "viewer"} => resp.ret = {}

\* the permissions of a role outside the table have been asked for
C23_Witness ==
    /\ resp.op = "get_permissions" /\ resp.args[1] = "root" /\ resp.ret = {}

\* C27: validate_password_strength is true exactly when the password has at
\* least 8 characters and holds an uppercase letter, a lowercase letter, a
\* digit and a character of the punctuation set; a password that misses any
\* single one of the five conditions is refused.
C27_StrengthPolicy ==
    resp.op = "validate_password_strength" =>
        LET password == resp.args[1]
            cs == chars(password)
            long == Len(cs) >= 8
            upper == \E i \in 1..Len(cs) : cs[i] \in UPPER
            lower == \E i \in 1..Len(cs) : cs[i] \in LOWER
            digit == \E i \in 1..Len(cs) : cs[i] \in DIGITS
            special == \E i \in 1..Len(cs) : cs[i] \in SPECIAL
        IN  /\ resp.ret = (long /\ upper /\ lower /\ digit /\ special)
            /\ password \in {"Sh0rt!a", "nonumbers123!", "NOLOWER123!", "NoNumbers!",
                              "NoSpecialChars123", "Slash123/a"} => resp.ret = FALSE
            /\ password \in {"TestPass123!", "Abcdef1!"} => resp.ret = TRUE

\* a password of exactly eight characters with all four classes was accepted
C27_Witness ==
    /\ resp.op = "validate_password_strength" /\ resp.args[1] = "Abcdef1!"
    /\ resp.ret = TRUE

\* C28: verify_password(p, get_password_hash(p)) is true, and
\* verify_password(p2, get_password_hash(p)) is false for every p2 other than
\* p; on a malformed digest verify_password returns false.
C28_VerifyExactlyOwnPassword ==
    /\ resp.op = "verify_password" => resp.ret = (resp.args[1] = resp.args[2])
    /\ resp.op = "verify_malformed" => resp.ret = FALSE

\* C24: the body of a handler behind require_permission(p) runs only when
\* the handler is called with a resolved current user whose permissions
\* contain p, and the body of a handler behind require_role(r) only when that
\* user's role is r; in every other case, a missing current user included,
\* the guard raises 401 or 403 and the body does not run.
C24_GuardedBody ==
    /\ resp.op = "require_permission" =>
          LET permission == resp.args[1]
              passing == resp.args[2]
              role == resp.args[3]
              entitled == /\ passing \in {"positional", "keyword"}
                          /\ permission \in get_permissions(role)
          IN  /\ resp.ret.ret = "body" => entitled
              /\ ~entitled => resp.ret.ret = "raise" /\ resp.ret.code \in {401, 403}
              /\ passing \in {"absent", "document"} =>
                    resp.ret.ret = "raise" /\ resp.ret.code = 401
    /\ resp.op = "require_role" =>
          LET role == resp.args[1]
              passing == resp.args[2]
              has == resp.args[3]
              entitled == passing \in {"positional", "keyword"} /\ has = role
          IN  /\ resp.ret.ret = "body" => entitled
              /\ ~entitled => resp.ret.ret = "raise" /\ resp.ret.code \in {401, 403}
              /\ passing \in {"absent", "document"} =>
                    resp.ret.ret = "raise" /\ resp.ret.code = 401

\* a viewer called a handler that needs execute:trades and was refused
C24_Witness ==
    /\ resp.op = "require_permission"
    /\ resp.args = <<"execute:trades", "positional", "viewer">>
    /\ resp.ret.ret = "raise" /\ resp.ret.code = 403

\* C25: once the failed-attempt counter of a user is above 0, only a
\* successful password verification brings the record back to counter 0
\* with no lockout-expiry; a wrong password, a call rejected as locked or as
\* deactivated, the passing of the lockout-expiry, a refresh and a
\* current-user resolution never make the counter smaller.
C25_OnlySuccessResets ==
    [][\A id \in 1..Len(users) :
          users[id].login_attempts > 0 =>
              /\ users'[id].login_attempts < users[id].login_attempts =>
                    /\ \E call \in BagToSet(inflight) :
                          /\ call.id = id /\ call.ret = "user"
                          /\ verify_password(call.password, users[id].password_hash)
                          /\ AuthenticateDone(call)
                    /\ users'[id].login_attempts = 0
                    /\ users'[id].locked_until = None
              /\ \A pw \in Passwords :
                    (pw # RIGHT /\ Authenticate(users[id].username, pw)) =>
                        users'[id].login_attempts >= users[id].login_attempts
              /\ \A call \in BagToSet(inflight) :
                    (call.ret = "fail" /\ AuthenticateDone(call)) =>
                        users'[id].login_attempts >= users[id].login_attempts
              /\ (resp'.ret = "raise" \/ now' # now \/ resp'.op \in {"refresh", "me"}) =>
                    users'[id].login_attempts >= users[id].login_attempts]_vars

\* a success has reset the counter that a wrong-password call still in
\* flight had read at the locking threshold
C25_Witness ==
    /\ users[1].login_attempts = 0 /\ users[1].locked_until = None
    /\ resp.op = "authenticate" /\ resp.ret = "user"
    /\ \E call \in BagToSet(inflight) :
          call.id = 1 /\ call.ret = "fail" /\ call.lock # None

\* C26: after a successful register, a login with the registered username
\* and password (budget available, no failure counted, user active) succeeds
\* and returns a token pair; get_current_user on its access token returns
\* that same user and a refresh with its refresh token succeeds.
C26_RegisterThenLogin ==
    [][/\ \A u \in RegUsernames, pw \in RegPasswords :
            LET id == find_one(u)
            IN  (/\ resp.op = "register" /\ resp.ret = "UserResponse"
                 /\ resp.username = u /\ resp.password = pw
                 /\ id # 0
                 /\ users[id].is_active
                 /\ users[id].login_attempts = 0 /\ users[id].locked_until = None
                 /\ is_allowed(login_key(u), LOGIN_MAX_ATTEMPTS, LOGIN_WINDOW_MINUTES, now)
                 /\ Login(u, pw))
                => \E call \in BagToSet(inflight') :
                      call.op = "login" /\ call.id = id /\ call.ret = "user"
       /\ \A call \in BagToSet(inflight) :
            (call.op = "login" /\ call.ret = "user" /\ LoginDone(call))
                => /\ resp'.op = "login" /\ resp'.ret = "Token" /\ resp'.code = 200
                   /\ resp'.username = users[call.id].username
                   /\ resp'.tokens # None
       /\ (/\ resp.op = "login" /\ resp.ret = "Token"
           /\ find_one(resp.username) # 0
           /\ users[find_one(resp.username)].is_active)
          => /\ Me(resp.tokens[1]) =>
                   /\ resp'.ret = "user" /\ resp'.code = 200
                   /\ resp'.token_data # None
                   /\ resp'.token_data[1].username = resp.username
                   /\ resp'.token_data[1].user_id = find_one(resp.username)
             /\ Refresh(resp.tokens[2]) =>
                   /\ resp'.ret = "Token" /\ resp'.code = 200
                   /\ resp'.tokens # None]_vars

\* a refresh has succeeded for a user who did not exist at the start: the
\* user registered, logged in and used the refresh token of the login
C26_Witness ==
    /\ resp.op = "refresh" /\ resp.ret = "Token"
    /\ find_one(resp.username) # 0
    /\ users[find_one(resp.username)].last_login # None
    /\ resp.token[1].claims.type = "refresh"

\* C29: in every reachable state, whatever the interleaving of concurrent
\* authenticate calls on one user, the user has a lockout-expiry exactly when
\* its failed-attempt counter is at least 5.
C29_LockedIffFiveFailures ==
    \A id \in 1..Len(users) :
        (users[id].locked_until # None) <=> (users[id].login_attempts >= LOCK_AFTER + 1)

\* C30: once the lockout-expiry of a user is set to a time in the future, no
\* wrong-password call, whatever it read before the lockout was written,
\* clears the lockout-expiry or moves it earlier before it expires.
C30_LockNotCleared ==
    [][\A call \in BagToSet(inflight) :
          (/\ call.op = "authenticate" /\ call.ret = "fail"
           /\ users[call.id].locked_until # None
           /\ users[call.id].locked_until[1] > now
           /\ AuthenticateDone(call))
          => /\ users'[call.id].locked_until # None
             /\ users'[call.id].locked_until[1] >= users[call.id].locked_until[1]]_vars

C32_LimitBeforeAuthentication ==
    /\ [][\A u \in Usernames, pw \in Passwords :
            LET key == login_key(u)
                before == IF key \in DOMAIN allowed THEN allowed[key] ELSE << >>
            IN  Login(u, pw) =>
                    /\ ~is_allowed(key, LOGIN_MAX_ATTEMPTS, LOGIN_WINDOW_MINUTES, now) =>
                          /\ resp'.ret = "raise" /\ resp'.code = 429
                          /\ resp'.username = u
                          /\ users' = users /\ inflight' = inflight /\ issued' = issued
                    /\ inflight' # inflight =>
                          /\ resp' = resp
                          /\ allowed'[key] = Append(before, now)]_vars
    /\ [](\A u \in Usernames :
            LET key == login_key(u)
                times == IF key \in DOMAIN allowed THEN allowed[key] ELSE << >>
            IN  \A i \in 1..Len(times) :
                    Cardinality({j \in 1..Len(times) :
                                    /\ times[j] <= times[i]
                                    /\ times[j] > times[i] - minutes(15)}) <= 5)

\* a sixth login with the correct password has been answered 429 while the
\* user was neither locked nor deactivated
C32_Witness ==
    /\ resp.op = "login" /\ resp.username = "alice" /\ resp.code = 429
    /\ resp.password = RIGHT
    /\ Len(allowed[login_key("alice")]) = 5
    /\ users[1].is_active /\ users[1].locked_until = None

\* the entries of a key's history that lie in the window ending now
recent(key, window_minutes) ==
    LET times == IF key \in DOMAIN allowed THEN allowed[key] ELSE << >>
    IN  Cardinality({j \in 1..Len(times) : times[j] > now - minutes(window_minutes)})

\* C33: every request the rate limiter admits uses budget whatever its
\* outcome, and no answer gives budget back: after 5 admitted logins for one
\* username within 15 minutes (all successful, say) a sixth login with the
\* correct password is answered 429, and after 5 admitted register requests
\* within 60 minutes (rejected ones included) every further register
\* request is answered 429.
C33_BudgetWhateverOutcome ==
    [][/\ \A pw \in Passwords :
            LoginBudget("alice", pw) =>
                IF recent(login_key("alice"), LOGIN_WINDOW_MINUTES) >= LOGIN_MAX_ATTEMPTS
                THEN resp'.ret = "raise" /\ resp'.code = HTTP_429_TOO_MANY_REQUESTS
                ELSE /\ recent(login_key("alice"), LOGIN_WINDOW_MINUTES)' = recent(login_key("alice"), LOGIN_WINDOW_MINUTES) + 1
                     /\ Len(attempts'[login_key("alice")]) = recent(login_key("alice"), LOGIN_WINDOW_MINUTES) + 1
       /\ \A pw \in RegPasswords, r \in RegRoles :
            RegisterBudget("bob", "bob@example.com", pw, r) =>
                IF recent(REGISTER_KEY, REGISTER_WINDOW_MINUTES) >= REGISTER_MAX_ATTEMPTS
                THEN resp'.ret = "raise" /\ resp'.code = HTTP_429_TOO_MANY_REQUESTS
                ELSE /\ recent(REGISTER_KEY, REGISTER_WINDOW_MINUTES)' = recent(REGISTER_KEY, REGISTER_WINDOW_MINUTES) + 1
                     /\ Len(attempts'[REGISTER_KEY]) = recent(REGISTER_KEY, REGISTER_WINDOW_MINUTES) + 1
       /\ \A call \in BagToSet(inflight) :
            (LoginDone(call) \/ CreateDone(call)) => attempts' = attempts]_vars

\* a register request has been answered 429 after five admitted ones of
\* which at most one created a user, while five logins, the last of them
\* successful, had used up the budget of alice
C33_Witness ==
    /\ resp.op = "register" /\ resp.code = HTTP_429_TOO_MANY_REQUESTS
    /\ recent(REGISTER_KEY, REGISTER_WINDOW_MINUTES) = REGISTER_MAX_ATTEMPTS
    /\ Len(users) <= 2
    /\ recent(login_key("alice"), LOGIN_WINDOW_MINUTES) = LOGIN_MAX_ATTEMPTS
    /\ users[1].login_attempts = 0 /\ users[1].last_login # None

\* C34: the lockout affects password authentication only: while the user is
\* locked and still active, resolving the current user with an unexpired
\* access token and refreshing with an unexpired refresh token both
\* succeed, and neither depends on nor changes the failed-attempt counter
\* or the lockout expiry.
C34_LockoutOnlyForPasswords ==
    [][\A token \in issued :
          /\ (/\ Me(token)
              /\ verify_token(token, "access", now) # None
              /\ users[1].is_active /\ is_locked(users[1], now))
             => /\ resp'.op = "me" /\ resp'.ret = "user" /\ resp'.code = 200
                /\ users' = users /\ inflight' = inflight /\ fails' = fails
          /\ (/\ Refresh(token)
              /\ verify_token(token, "refresh", now) # None
              /\ users[1].is_active /\ is_locked(users[1], now))
             => /\ resp'.op = "refresh" /\ resp'.ret = "Token" /\ resp'.code = 200
                /\ users' = users /\ inflight' = inflight /\ fails' = fails]_vars

\* a refresh with the refresh token of the first login has succeeded while
\* the user is locked after five failures
C34_Witness ==
    /\ resp.op = "refresh" /\ resp.code = 200
    /\ resp.token # None /\ resp.token[1].claims.type = "refresh"
    /\ users[1].is_active /\ is_locked(users[1], now)
    /\ users[1].login_attempts >= 5

\* the token is of the given type and its expiry timestamp has not passed
unexpired(token, token_type) ==
    /\ token.claims.type = token_type
    /\ now <= token.claims.exp * TicksPerSecond

\* C35: tokens are never revoked on the server: as long as its user is
\* active, a refresh token is accepted by every refresh made until it
\* expires, however many refreshes and logins came before, and an access
\* token is accepted until it expires in the same way; a refresh or a login
\* takes no token out of circulation.
C35_NeverRevoked ==
    [][/\ \A token \in issued :
            /\ (refresh_access_token(token) /\ unexpired(token, "refresh"))
               => /\ resp'.op = "refresh" /\ resp'.ret = "Token" /\ resp'.code = 200
                  /\ resp'.tokens = create_tokens(1, users[1], now)
            /\ (Me(token) /\ unexpired(token, "access"))
               => resp'.op = "me" /\ resp'.ret = "user" /\ resp'.code = 200
       /\ issued \subseteq issued']_vars

\* the refresh token of the first login is accepted one second before it
\* expires, after pairs were handed out at three instants and after a later
\* login
C35_Witness ==
    /\ resp.op = "refresh" /\ resp.code = 200
    /\ resp.token # None /\ resp.token[1] = create_tokens(1, users[1], 0)[2]
    /\ now = days(REFRESH_TOKEN_EXPIRE_DAYS) - TicksPerSecond
    /\ Cardinality({token \in issued : token.claims.type = "refresh"}) >= 3
    /\ users[1].last_login # Some(0)

\* the fields of a user document that say who the user is
account(user) ==
    [username |-> user.username, email |-> user.email,
     password_hash |-> user.password_hash, role |-> user.role,
     is_active |-> user.is_active]

\* C36: authenticate, the issuing of a token pair, refresh and the
\* resolution of the current user never change a username, email, password
\* hash, role or active flag and never create or delete a user; only the
\* store update of an authenticate call changes a document, that of the
\* user it was called for, in its counter, lockout expiry and last login,
\* and the last login changes only when the authentication succeeded.
C36_OnlyLoginBookkeeping ==
    [][/\ Len(users') = Len(users)
       /\ \A id \in 1..Len(users) : account(users'[id]) = account(users[id])
       /\ (\A call \in BagToSet(inflight) : ~AuthenticateDone(call)) => users' = users
       /\ \A call \in BagToSet(inflight) :
            AuthenticateDone(call) =>
                /\ \A id \in 1..Len(users) : id # call.id => users'[id] = users[id]
                /\ call.ret = "fail" =>
                       users'[call.id].last_login = users[call.id].last_login
                /\ call.ret # "fail" => users'[call.id].last_login = Some(call.at)]_vars

\* one user has failures on record, the other has logged in after the
\* lockout duration, and new pairs have been handed out
C36_Witness ==
    /\ users[1].login_attempts > 0 /\ users[1].last_login = Some(0)
    /\ users[2].last_login = Some(minutes(LOCK_MINUTES))
    /\ Cardinality(issued) > 4
    /\ resp.op = "me" /\ resp.code = 200

\* C37: when the database initialization has failed at startup the auth
\* manager stays unset, and register, login, refresh and the resolution of
\* the current user answer 503 before any rate-limit check: no rate-limit
\* budget is used, no token is issued and no store call is started.
C37_UnavailableBeforeLimit ==
    /\ [][~auth_manager =>
            /\ ~auth_manager'
            /\ attempts' = attempts /\ allowed' = allowed /\ issued' = issued
            /\ users' = users /\ inflight' = inflight
            /\ resp' # resp =>
                   /\ resp'.ret = "raise" /\ resp'.code = 503
                   /\ resp'.detail = UNAVAILABLE /\ resp'.tokens = None]_vars
    /\ [](~auth_manager => attempts = << >> /\ allowed = << >>)

\* with the auth manager unset, a login with the right password has been
\* answered 503 and the rate limiter has recorded nothing
C37_Witness ==
    /\ ~auth_manager
    /\ resp.op = "login" /\ resp.password = RIGHT /\ resp.code = 503
    /\ now > 0
    /\ attempts = << >>

\* the stored strategy with this id belongs to somebody else than the caller
foreign(call) ==
    /\ get_strategy_by_id(call.strategy_id) # None
    /\ get_strategy_by_id(call.strategy_id)[1].user_id # call.user_id

\* C38: a strategy is created, updated or deleted only by a request whose
\* current user has manage:strategies among its permissions (never a
\* viewer), and an existing strategy is updated or deleted only by its owner:
\* the request of any other user, an admin included, is answered 403 and
\* leaves the strategies unchanged.
C38_StrategiesByOwnerOnly ==
    [][/\ strategies' # strategies =>
            \E call \in BagToSet(inflight) :
                /\ create_strategy(call) \/ update_strategy(call) \/ delete_strategy(call)
                /\ MANAGE_STRATEGIES \in call.permissions /\ call.role # VIEWER
                /\ call.permissions = get_permissions(users[call.user_id].role)
                /\ \A id \in 1..Len(strategies) :
                      strategies'[id] # strategies[id] =>
                          /\ id = call.strategy_id
                          /\ strategies[id] # None
                          /\ strategies[id][1].user_id = call.user_id
                /\ \A id \in (Len(strategies) + 1)..Len(strategies') :
                      strategies'[id][1].user_id = call.user_id
       /\ \A call \in BagToSet(inflight) :
            (verify_ownership(call) /\ foreign(call))
               => /\ resp'.ret = "raise" /\ resp'.code = 403
                  /\ strategies' = strategies
                  /\ inflight' = inflight (-) SetToBag({call})]_vars

\* the admin has been refused the deletion of a strategy of the trader
C38_Witness ==
    /\ resp.op = "delete_strategy" /\ resp.username = "admin"
    /\ resp.code = 403 /\ resp.detail = "Not authorized to delete this strategy"
    /\ get_strategy_by_id(1) # None /\ get_strategy_by_id(1)[1].user_id = 1

\* the tasks that are inside the loop of trading_background_task
running == {i \in 1..Len(background_tasks) : background_tasks[i] = "sleeping"}

\* C39: whatever the sequence of start_trading and stop_trading requests, at
\* most one trading background task is inside its loop: a start while
\* trading is active adds no task, and a stop followed by a start does not
\* leave the task of the earlier start running beside the new one.
C39_AtMostOneTask ==
    Cardinality(running) <= 1

\* C40: when trading is inactive (after stop_trading or the shutdown
\* handler) and no start_trading follows, every trading background task
\* leaves its loop and returns; only start_trading makes the flag true, and
\* get_trading_status reports the flag.
C40_TasksTerminate ==
    /\ (~trading_is_active) ~>
          (trading_is_active \/
           \A i \in 1..Len(background_tasks) : background_tasks[i] = "returned")
    /\ [][/\ (~trading_is_active /\ trading_is_active') =>
               /\ resp'.op = "start_trading"
               /\ resp'.ret = [message |-> "Trading started successfully"]
          /\ (resp' # resp /\ resp'.op = "get_trading_status") =>
               resp'.ret = [is_active |-> trading_is_active]]_vars

\* trading is inactive, the tasks of two starts have both returned and the
\* status has been reported as inactive
C40_Witness ==
    /\ ~trading_is_active
    /\ Len(background_tasks) >= 2
    /\ \A i \in 1..Len(background_tasks) : background_tasks[i] = "returned"
    /\ resp.op = "get_trading_status" /\ resp.ret = [is_active |-> FALSE]

====
